---- MODULE Spec2Model ----
(***************************************************************************)
(* VocabMasterAI: the rule-based grammar-forms engine (grammarRules) and   *)
(* the deterministic practice selector of the dictionary service.          *)
(*                                                                         *)
(* A JavaScript string is modelled as a sequence of one-character strings, *)
(* so that endsWith, slice, includes, toLowerCase, trim and indexing are   *)
(* computed, not assumed.  A value that is not a string (undefined, an     *)
(* inherited Object.prototype member) is a token that is no one-character  *)
(* string.                                                                 *)
(***************************************************************************)
EXTENDS Integers, Sequences, FiniteSets, TLC

(***************************************************************************)
(* Bounds of the model.                                                    *)
(***************************************************************************)
\* longest word enumerated exhaustively over ShortAlphabet
MaxLen == 3

\* the calls counted after a remembered call (the count saturates here)
MaxLater == 2

(***************************************************************************)
(* JavaScript strings.                                                     *)
(***************************************************************************)
LowerLetters ==
  <<"a","b","c","d","e","f","g","h","i","j","k","l","m",
    "n","o","p","q","r","s","t","u","v","w","x","y","z">>

UpperLetters ==
  <<"A","B","C","D","E","F","G","H","I","J","K","L","M",
    "N","O","P","Q","R","S","T","U","V","W","X","Y","Z">>

\* the characters other than letters that occur in the inputs of the model
OtherChars == {" ", "_", "/", "[", "]", "-"}

Char == {LowerLetters[i] : i \in 1..Len(LowerLetters)}
          \cup {UpperLetters[i] : i \in 1..Len(UpperLetters)} \cup OtherChars

\* what indexing past either end of a string yields
Undefined == "undefined"

\* a value is a string when every element is a character
IsString(v) == \A i \in 1..Len(v) : v[i] \in Char

\* word[i], zero-based as in the source; undefined outside the string
charAt(s, i) == IF i >= 0 /\ i < Len(s) THEN s[i + 1] ELSE Undefined

endsWith(s, suffix) ==
  /\ Len(s) >= Len(suffix)
  /\ SubSeq(s, Len(s) - Len(suffix) + 1, Len(s)) = suffix

includes(s, sub) ==
  \E i \in 1..(Len(s) - Len(sub) + 1) : SubSeq(s, i, i + Len(sub) - 1) = sub

\* s.slice(0, -n)
sliceEnd(s, n) == IF Len(s) > n THEN SubSeq(s, 1, Len(s) - n) ELSE <<>>

toLowerCaseChar(c) ==
  IF \E k \in 1..Len(UpperLetters) : UpperLetters[k] = c
  THEN LowerLetters[CHOOSE k \in 1..Len(UpperLetters) : UpperLetters[k] = c]
  ELSE c

toLowerCase(s) == [i \in 1..Len(s) |-> toLowerCaseChar(s[i])]

trim(s) ==
  LET kept == {i \in 1..Len(s) : s[i] # " "}
      first == CHOOSE i \in kept : \A j \in kept : i <= j
      last == CHOOSE i \in kept : \A j \in kept : i >= j
  IN IF kept = {} THEN <<>> ELSE SubSeq(s, first, last)

\* char.charCodeAt(0)
charCodeAt(c) ==
  IF \E k \in 1..Len(LowerLetters) : LowerLetters[k] = c
  THEN 96 + (CHOOSE k \in 1..Len(LowerLetters) : LowerLetters[k] = c)
  ELSE IF \E k \in 1..Len(UpperLetters) : UpperLetters[k] = c
  THEN 64 + (CHOOSE k \in 1..Len(UpperLetters) : UpperLetters[k] = c)
  ELSE CASE c = " " -> 32
         [] c = "_" -> 95
         [] c = "/" -> 47
         [] c = "[" -> 91
         [] c = "]" -> 93
         [] c = "-" -> 45

(***************************************************************************)
(* The lookup tables as the module sets them.                              *)
(***************************************************************************)
IrregularVerbEntries ==
  {
    <<<<"b","e">>, <<<<"w","a","s","/","w","e","r","e">>, <<"b","e","e","n">>>>>>,
    <<<<"h","a","v","e">>, <<<<"h","a","d">>, <<"h","a","d">>>>>>,
    <<<<"d","o">>, <<<<"d","i","d">>, <<"d","o","n","e">>>>>>,
    <<<<"g","o">>, <<<<"w","e","n","t">>, <<"g","o","n","e">>>>>>,
    <<<<"s","a","y">>, <<<<"s","a","i","d">>, <<"s","a","i","d">>>>>>,
    <<<<"m","a","k","e">>, <<<<"m","a","d","e">>, <<"m","a","d","e">>>>>>,
    <<<<"g","e","t">>, <<<<"g","o","t">>, <<"g","o","t","/","g","o","t","t","e","n">>>>>>,
    <<<<"k","n","o","w">>, <<<<"k","n","e","w">>, <<"k","n","o","w","n">>>>>>,
    <<<<"t","h","i","n","k">>, <<<<"t","h","o","u","g","h","t">>, <<"t","h","o","u","g","h","t">>>>>>,
    <<<<"t","a","k","e">>, <<<<"t","o","o","k">>, <<"t","a","k","e","n">>>>>>,
    <<<<"s","e","e">>, <<<<"s","a","w">>, <<"s","e","e","n">>>>>>,
    <<<<"c","o","m","e">>, <<<<"c","a","m","e">>, <<"c","o","m","e">>>>>>,
    <<<<"f","i","n","d">>, <<<<"f","o","u","n","d">>, <<"f","o","u","n","d">>>>>>,
    <<<<"g","i","v","e">>, <<<<"g","a","v","e">>, <<"g","i","v","e","n">>>>>>,
    <<<<"t","e","l","l">>, <<<<"t","o","l","d">>, <<"t","o","l","d">>>>>>,
    <<<<"f","e","e","l">>, <<<<"f","e","l","t">>, <<"f","e","l","t">>>>>>,
    <<<<"b","e","c","o","m","e">>, <<<<"b","e","c","a","m","e">>, <<"b","e","c","o","m","e">>>>>>,
    <<<<"l","e","a","v","e">>, <<<<"l","e","f","t">>, <<"l","e","f","t">>>>>>,
    <<<<"p","u","t">>, <<<<"p","u","t">>, <<"p","u","t">>>>>>,
    <<<<"m","e","a","n">>, <<<<"m","e","a","n","t">>, <<"m","e","a","n","t">>>>>>,
    <<<<"k","e","e","p">>, <<<<"k","e","p","t">>, <<"k","e","p","t">>>>>>,
    <<<<"l","e","t">>, <<<<"l","e","t">>, <<"l","e","t">>>>>>,
    <<<<"b","e","g","i","n">>, <<<<"b","e","g","a","n">>, <<"b","e","g","u","n">>>>>>,
    <<<<"s","e","e","m">>, <<<<"s","e","e","m","e","d">>, <<"s","e","e","m","e","d">>>>>>,
    <<<<"h","e","l","p">>, <<<<"h","e","l","p","e","d">>, <<"h","e","l","p","e","d">>>>>>,
    <<<<"s","h","o","w">>, <<<<"s","h","o","w","e","d">>, <<"s","h","o","w","n">>>>>>,
    <<<<"h","e","a","r">>, <<<<"h","e","a","r","d">>, <<"h","e","a","r","d">>>>>>,
    <<<<"p","l","a","y">>, <<<<"p","l","a","y","e","d">>, <<"p","l","a","y","e","d">>>>>>,
    <<<<"r","u","n">>, <<<<"r","a","n">>, <<"r","u","n">>>>>>,
    <<<<"m","o","v","e">>, <<<<"m","o","v","e","d">>, <<"m","o","v","e","d">>>>>>,
    <<<<"l","i","v","e">>, <<<<"l","i","v","e","d">>, <<"l","i","v","e","d">>>>>>,
    <<<<"b","e","l","i","e","v","e">>, <<<<"b","e","l","i","e","v","e","d">>, <<"b","e","l","i","e","v","e","d">>>>>>,
    <<<<"b","r","i","n","g">>, <<<<"b","r","o","u","g","h","t">>, <<"b","r","o","u","g","h","t">>>>>>,
    <<<<"h","a","p","p","e","n">>, <<<<"h","a","p","p","e","n","e","d">>, <<"h","a","p","p","e","n","e","d">>>>>>,
    <<<<"w","r","i","t","e">>, <<<<"w","r","o","t","e">>, <<"w","r","i","t","t","e","n">>>>>>,
    <<<<"s","i","t">>, <<<<"s","a","t">>, <<"s","a","t">>>>>>,
    <<<<"s","t","a","n","d">>, <<<<"s","t","o","o","d">>, <<"s","t","o","o","d">>>>>>,
    <<<<"l","o","s","e">>, <<<<"l","o","s","t">>, <<"l","o","s","t">>>>>>,
    <<<<"p","a","y">>, <<<<"p","a","i","d">>, <<"p","a","i","d">>>>>>,
    <<<<"m","e","e","t">>, <<<<"m","e","t">>, <<"m","e","t">>>>>>,
    <<<<"i","n","c","l","u","d","e">>, <<<<"i","n","c","l","u","d","e","d">>, <<"i","n","c","l","u","d","e","d">>>>>>,
    <<<<"c","o","n","t","i","n","u","e">>, <<<<"c","o","n","t","i","n","u","e","d">>, <<"c","o","n","t","i","n","u","e","d">>>>>>,
    <<<<"s","e","t">>, <<<<"s","e","t">>, <<"s","e","t">>>>>>,
    <<<<"l","e","a","r","n">>, <<<<"l","e","a","r","n","t","/","l","e","a","r","n","e","d">>, <<"l","e","a","r","n","t","/","l","e","a","r","n","e","d">>>>>>,
    <<<<"c","h","a","n","g","e">>, <<<<"c","h","a","n","g","e","d">>, <<"c","h","a","n","g","e","d">>>>>>,
    <<<<"l","e","a","d">>, <<<<"l","e","d">>, <<"l","e","d">>>>>>,
    <<<<"u","n","d","e","r","s","t","a","n","d">>, <<<<"u","n","d","e","r","s","t","o","o","d">>, <<"u","n","d","e","r","s","t","o","o","d">>>>>>,
    <<<<"w","a","t","c","h">>, <<<<"w","a","t","c","h","e","d">>, <<"w","a","t","c","h","e","d">>>>>>,
    <<<<"f","o","l","l","o","w">>, <<<<"f","o","l","l","o","w","e","d">>, <<"f","o","l","l","o","w","e","d">>>>>>,
    <<<<"s","t","o","p">>, <<<<"s","t","o","p","p","e","d">>, <<"s","t","o","p","p","e","d">>>>>>,
    <<<<"c","r","e","a","t","e">>, <<<<"c","r","e","a","t","e","d">>, <<"c","r","e","a","t","e","d">>>>>>,
    <<<<"s","p","e","a","k">>, <<<<"s","p","o","k","e">>, <<"s","p","o","k","e","n">>>>>>,
    <<<<"r","e","a","d">>, <<<<"r","e","a","d">>, <<"r","e","a","d">>>>>>,
    <<<<"s","p","e","n","d">>, <<<<"s","p","e","n","t">>, <<"s","p","e","n","t">>>>>>,
    <<<<"g","r","o","w">>, <<<<"g","r","e","w">>, <<"g","r","o","w","n">>>>>>,
    <<<<"o","p","e","n">>, <<<<"o","p","e","n","e","d">>, <<"o","p","e","n","e","d">>>>>>,
    <<<<"w","a","l","k">>, <<<<"w","a","l","k","e","d">>, <<"w","a","l","k","e","d">>>>>>,
    <<<<"w","i","n">>, <<<<"w","o","n">>, <<"w","o","n">>>>>>,
    <<<<"o","f","f","e","r">>, <<<<"o","f","f","e","r","e","d">>, <<"o","f","f","e","r","e","d">>>>>>,
    <<<<"r","e","m","e","m","b","e","r">>, <<<<"r","e","m","e","m","b","e","r","e","d">>, <<"r","e","m","e","m","b","e","r","e","d">>>>>>,
    <<<<"l","o","v","e">>, <<<<"l","o","v","e","d">>, <<"l","o","v","e","d">>>>>>,
    <<<<"c","o","n","s","i","d","e","r">>, <<<<"c","o","n","s","i","d","e","r","e","d">>, <<"c","o","n","s","i","d","e","r","e","d">>>>>>,
    <<<<"a","p","p","e","a","r">>, <<<<"a","p","p","e","a","r","e","d">>, <<"a","p","p","e","a","r","e","d">>>>>>,
    <<<<"b","u","y">>, <<<<"b","o","u","g","h","t">>, <<"b","o","u","g","h","t">>>>>>,
    <<<<"w","a","i","t">>, <<<<"w","a","i","t","e","d">>, <<"w","a","i","t","e","d">>>>>>,
    <<<<"s","e","r","v","e">>, <<<<"s","e","r","v","e","d">>, <<"s","e","r","v","e","d">>>>>>,
    <<<<"d","i","e">>, <<<<"d","i","e","d">>, <<"d","i","e","d">>>>>>,
    <<<<"s","e","n","d">>, <<<<"s","e","n","t">>, <<"s","e","n","t">>>>>>,
    <<<<"e","x","p","e","c","t">>, <<<<"e","x","p","e","c","t","e","d">>, <<"e","x","p","e","c","t","e","d">>>>>>,
    <<<<"b","u","i","l","d">>, <<<<"b","u","i","l","t">>, <<"b","u","i","l","t">>>>>>,
    <<<<"s","t","a","y">>, <<<<"s","t","a","y","e","d">>, <<"s","t","a","y","e","d">>>>>>,
    <<<<"f","a","l","l">>, <<<<"f","e","l","l">>, <<"f","a","l","l","e","n">>>>>>,
    <<<<"c","u","t">>, <<<<"c","u","t">>, <<"c","u","t">>>>>>,
    <<<<"r","e","a","c","h">>, <<<<"r","e","a","c","h","e","d">>, <<"r","e","a","c","h","e","d">>>>>>,
    <<<<"k","i","l","l">>, <<<<"k","i","l","l","e","d">>, <<"k","i","l","l","e","d">>>>>>,
    <<<<"r","e","m","a","i","n">>, <<<<"r","e","m","a","i","n","e","d">>, <<"r","e","m","a","i","n","e","d">>>>>>,
    <<<<"s","u","g","g","e","s","t">>, <<<<"s","u","g","g","e","s","t","e","d">>, <<"s","u","g","g","e","s","t","e","d">>>>>>,
    <<<<"r","a","i","s","e">>, <<<<"r","a","i","s","e","d">>, <<"r","a","i","s","e","d">>>>>>,
    <<<<"p","a","s","s">>, <<<<"p","a","s","s","e","d">>, <<"p","a","s","s","e","d">>>>>>,
    <<<<"s","e","l","l">>, <<<<"s","o","l","d">>, <<"s","o","l","d">>>>>>,
    <<<<"b","r","e","a","k">>, <<<<"b","r","o","k","e">>, <<"b","r","o","k","e","n">>>>>>,
    <<<<"d","e","c","i","d","e">>, <<<<"d","e","c","i","d","e","d">>, <<"d","e","c","i","d","e","d">>>>>>,
    <<<<"e","a","t">>, <<<<"a","t","e">>, <<"e","a","t","e","n">>>>>>,
    <<<<"d","r","i","v","e">>, <<<<"d","r","o","v","e">>, <<"d","r","i","v","e","n">>>>>>,
    <<<<"w","e","a","r">>, <<<<"w","o","r","e">>, <<"w","o","r","n">>>>>>,
    <<<<"c","h","o","o","s","e">>, <<<<"c","h","o","s","e">>, <<"c","h","o","s","e","n">>>>>>,
    <<<<"s","i","n","g">>, <<<<"s","a","n","g">>, <<"s","u","n","g">>>>>>,
    <<<<"d","r","i","n","k">>, <<<<"d","r","a","n","k">>, <<"d","r","u","n","k">>>>>>,
    <<<<"h","i","t">>, <<<<"h","i","t">>, <<"h","i","t">>>>>>,
    <<<<"f","l","y">>, <<<<"f","l","e","w">>, <<"f","l","o","w","n">>>>>>,
    <<<<"c","a","t","c","h">>, <<<<"c","a","u","g","h","t">>, <<"c","a","u","g","h","t">>>>>>,
    <<<<"d","r","a","w">>, <<<<"d","r","e","w">>, <<"d","r","a","w","n">>>>>>,
    <<<<"t","h","r","o","w">>, <<<<"t","h","r","e","w">>, <<"t","h","r","o","w","n">>>>>>,
    <<<<"s","l","e","e","p">>, <<<<"s","l","e","p","t">>, <<"s","l","e","p","t">>>>>>,
    <<<<"t","e","a","c","h">>, <<<<"t","a","u","g","h","t">>, <<"t","a","u","g","h","t">>>>>>,
    <<<<"w","a","k","e">>, <<<<"w","o","k","e">>, <<"w","o","k","e","n">>>>>>,
    <<<<"s","w","i","m">>, <<<<"s","w","a","m">>, <<"s","w","u","m">>>>>>,
    <<<<"r","i","d","e">>, <<<<"r","o","d","e">>, <<"r","i","d","d","e","n">>>>>>,
    <<<<"f","o","r","g","e","t">>, <<<<"f","o","r","g","o","t">>, <<"f","o","r","g","o","t","t","e","n">>>>>>,
    <<<<"f","i","g","h","t">>, <<<<"f","o","u","g","h","t">>, <<"f","o","u","g","h","t">>>>>>,
    <<<<"h","i","d","e">>, <<<<"h","i","d">>, <<"h","i","d","d","e","n">>>>>>,
    <<<<"h","o","l","d">>, <<<<"h","e","l","d">>, <<"h","e","l","d">>>>>>,
    <<<<"h","u","r","t">>, <<<<"h","u","r","t">>, <<"h","u","r","t">>>>>>,
    <<<<"l","i","e">>, <<<<"l","a","y">>, <<"l","a","i","n">>>>>>,
    <<<<"l","a","y">>, <<<<"l","a","i","d">>, <<"l","a","i","d">>>>>>,
    <<<<"l","i","g","h","t">>, <<<<"l","i","t">>, <<"l","i","t">>>>>>,
    <<<<"q","u","i","t">>, <<<<"q","u","i","t">>, <<"q","u","i","t">>>>>>,
    <<<<"r","i","s","e">>, <<<<"r","o","s","e">>, <<"r","i","s","e","n">>>>>>,
    <<<<"s","h","a","k","e">>, <<<<"s","h","o","o","k">>, <<"s","h","a","k","e","n">>>>>>,
    <<<<"s","h","i","n","e">>, <<<<"s","h","o","n","e">>, <<"s","h","o","n","e">>>>>>,
    <<<<"s","h","o","o","t">>, <<<<"s","h","o","t">>, <<"s","h","o","t">>>>>>,
    <<<<"s","h","u","t">>, <<<<"s","h","u","t">>, <<"s","h","u","t">>>>>>,
    <<<<"s","t","e","a","l">>, <<<<"s","t","o","l","e">>, <<"s","t","o","l","e","n">>>>>>,
    <<<<"s","t","i","c","k">>, <<<<"s","t","u","c","k">>, <<"s","t","u","c","k">>>>>>,
    <<<<"s","t","r","i","k","e">>, <<<<"s","t","r","u","c","k">>, <<"s","t","r","u","c","k">>>>>>,
    <<<<"s","w","e","a","r">>, <<<<"s","w","o","r","e">>, <<"s","w","o","r","n">>>>>>,
    <<<<"t","e","a","r">>, <<<<"t","o","r","e">>, <<"t","o","r","n">>>>>>
  }

UncountableNounList ==
  {
    <<"i","n","f","o","r","m","a","t","i","o","n">>, <<"a","d","v","i","c","e">>,
    <<"k","n","o","w","l","e","d","g","e">>, <<"f","u","r","n","i","t","u","r","e">>,
    <<"l","u","g","g","a","g","e">>, <<"b","a","g","g","a","g","e">>,
    <<"h","o","m","e","w","o","r","k">>, <<"e","v","i","d","e","n","c","e">>,
    <<"e","q","u","i","p","m","e","n","t">>, <<"n","e","w","s">>,
    <<"j","e","w","e","l","r","y">>, <<"m","o","n","e","y">>, <<"m","u","s","i","c">>,
    <<"l","o","v","e">>, <<"h","a","p","p","i","n","e","s","s">>,
    <<"s","a","d","n","e","s","s">>, <<"b","r","a","v","e","r","y">>, <<"s","u","g","a","r">>,
    <<"s","a","l","t">>, <<"r","i","c","e">>, <<"b","u","t","t","e","r">>,
    <<"w","a","t","e","r">>, <<"m","i","l","k">>, <<"c","o","f","f","e","e">>, <<"a","i","r">>,
    <<"w","e","a","t","h","e","r">>, <<"e","l","e","c","t","r","i","c","i","t","y">>,
    <<"p","o","w","e","r">>, <<"c","h","a","o","s">>, <<"s","c","e","n","e","r","y">>,
    <<"t","r","a","f","f","i","c">>, <<"p","e","r","m","i","s","s","i","o","n">>,
    <<"b","e","h","a","v","i","o","r">>,
    <<"a","c","c","o","m","m","o","d","a","t","i","o","n">>, <<"b","r","e","a","d">>
  }

AbsoluteAdjectiveList ==
  {
    <<"u","n","i","q","u","e">>, <<"p","e","r","f","e","c","t">>, <<"d","e","a","d">>,
    <<"a","l","i","v","e">>, <<"f","a","t","a","l">>, <<"f","i","n","a","l">>,
    <<"e","m","p","t","y">>, <<"f","u","l","l">>, <<"a","b","s","o","l","u","t","e">>,
    <<"i","m","p","o","s","s","i","b","l","e">>, <<"e","t","e","r","n","a","l">>,
    <<"i","n","f","i","n","i","t","e">>, <<"u","n","i","v","e","r","s","a","l">>,
    <<"p","r","e","g","n","a","n","t">>, <<"m","a","i","n">>,
    <<"p","r","i","n","c","i","p","a","l">>, <<"e","n","t","i","r","e">>,
    <<"w","h","o","l","e">>, <<"c","o","r","r","e","c","t">>,
    <<"i","n","c","o","r","r","e","c","t">>, <<"t","r","u","e">>, <<"f","a","l","s","e">>
  }

ShortAdjectiveList ==
  {
    <<"b","i","g">>, <<"s","m","a","l","l">>, <<"f","a","t">>, <<"t","h","i","n">>,
    <<"h","o","t">>, <<"c","o","l","d">>, <<"t","a","l","l">>, <<"s","h","o","r","t">>,
    <<"l","o","n","g">>, <<"n","i","c","e">>, <<"b","r","a","v","e">>, <<"l","a","r","g","e">>,
    <<"w","i","d","e">>, <<"s","a","f","e">>, <<"l","a","t","e">>, <<"c","l","o","s","e">>,
    <<"w","i","s","e">>, <<"f","a","s","t">>, <<"s","l","o","w">>, <<"h","a","r","d">>,
    <<"s","o","f","t">>, <<"h","i","g","h">>, <<"l","o","w">>, <<"d","e","e","p">>,
    <<"w","e","a","k">>, <<"s","t","r","o","n","g">>, <<"y","o","u","n","g">>, <<"o","l","d">>,
    <<"r","i","c","h">>, <<"p","o","o","r">>, <<"c","l","e","a","n">>, <<"d","i","r","t","y">>,
    <<"c","h","e","a","p">>, <<"q","u","i","c","k">>, <<"d","a","r","k">>,
    <<"b","r","i","g","h","t">>, <<"s","h","a","r","p">>, <<"d","u","l","l">>,
    <<"c","a","l","m">>, <<"c","o","o","l">>, <<"w","a","r","m">>, <<"f","r","e","s","h">>,
    <<"s","w","e","e","t">>, <<"s","o","u","r">>, <<"s","m","a","r","t">>, <<"d","u","m","b">>,
    <<"b","u","s","y">>, <<"e","a","s","y">>, <<"h","a","p","p","y">>, <<"l","a","z","y">>,
    <<"h","e","a","v","y">>, <<"d","r","y">>, <<"f","u","n","n","y">>
  }

NoDoublingExceptionList ==
  {
    <<"v","i","s","i","t">>, <<"o","p","e","n">>, <<"h","a","p","p","e","n">>,
    <<"l","i","s","t","e","n">>, <<"o","f","f","e","r">>, <<"s","u","f","f","e","r">>,
    <<"t","a","r","g","e","t">>, <<"m","a","r","k","e","t">>, <<"a","n","s","w","e","r">>,
    <<"c","o","v","e","r">>, <<"e","n","t","e","r">>, <<"r","e","m","e","m","b","e","r">>,
    <<"d","e","v","e","l","o","p">>, <<"l","i","m","i","t">>, <<"e","d","i","t">>,
    <<"b","u","d","g","e","t">>
  }

IrregularPluralEntries ==
  {
    <<<<"m","a","n">>, <<"m","e","n">>>>, <<<<"w","o","m","a","n">>, <<"w","o","m","e","n">>>>,
    <<<<"c","h","i","l","d">>, <<"c","h","i","l","d","r","e","n">>>>,
    <<<<"p","e","r","s","o","n">>, <<"p","e","o","p","l","e">>>>,
    <<<<"f","o","o","t">>, <<"f","e","e","t">>>>,
    <<<<"t","o","o","t","h">>, <<"t","e","e","t","h">>>>,
    <<<<"g","o","o","s","e">>, <<"g","e","e","s","e">>>>,
    <<<<"m","o","u","s","e">>, <<"m","i","c","e">>>>,
    <<<<"l","o","u","s","e">>, <<"l","i","c","e">>>>, <<<<"o","x">>, <<"o","x","e","n">>>>,
    <<<<"l","e","a","f">>, <<"l","e","a","v","e","s">>>>,
    <<<<"l","i","f","e">>, <<"l","i","v","e","s">>>>,
    <<<<"k","n","i","f","e">>, <<"k","n","i","v","e","s">>>>,
    <<<<"w","i","f","e">>, <<"w","i","v","e","s">>>>,
    <<<<"h","a","l","f">>, <<"h","a","l","v","e","s">>>>,
    <<<<"t","h","i","e","f">>, <<"t","h","i","e","v","e","s">>>>,
    <<<<"e","l","f">>, <<"e","l","v","e","s">>>>,
    <<<<"l","o","a","f">>, <<"l","o","a","v","e","s">>>>,
    <<<<"p","o","t","a","t","o">>, <<"p","o","t","a","t","o","e","s">>>>,
    <<<<"t","o","m","a","t","o">>, <<"t","o","m","a","t","o","e","s">>>>,
    <<<<"h","e","r","o">>, <<"h","e","r","o","e","s">>>>,
    <<<<"e","c","h","o">>, <<"e","c","h","o","e","s">>>>,
    <<<<"a","n","a","l","y","s","i","s">>, <<"a","n","a","l","y","s","e","s">>>>,
    <<<<"c","r","i","s","i","s">>, <<"c","r","i","s","e","s">>>>,
    <<<<"t","h","e","s","i","s">>, <<"t","h","e","s","e","s">>>>,
    <<<<"b","a","s","i","s">>, <<"b","a","s","e","s">>>>,
    <<<<"d","i","a","g","n","o","s","i","s">>, <<"d","i","a","g","n","o","s","e","s">>>>,
    <<<<"p","h","e","n","o","m","e","n","o","n">>, <<"p","h","e","n","o","m","e","n","a">>>>,
    <<<<"c","r","i","t","e","r","i","o","n">>, <<"c","r","i","t","e","r","i","a">>>>,
    <<<<"d","a","t","u","m">>, <<"d","a","t","a">>>>,
    <<<<"b","a","c","t","e","r","i","u","m">>, <<"b","a","c","t","e","r","i","a">>>>,
    <<<<"m","e","d","i","u","m">>, <<"m","e","d","i","a">>>>,
    <<<<"s","h","e","e","p">>, <<"s","h","e","e","p">>>>,
    <<<<"d","e","e","r">>, <<"d","e","e","r">>>>, <<<<"f","i","s","h">>, <<"f","i","s","h">>>>,
    <<<<"s","e","r","i","e","s">>, <<"s","e","r","i","e","s">>>>,
    <<<<"s","p","e","c","i","e","s">>, <<"s","p","e","c","i","e","s">>>>,
    <<<<"a","i","r","c","r","a","f","t">>, <<"a","i","r","c","r","a","f","t">>>>
  }

\* the object literal { key: value, ... } as a function on its own keys
ObjectOf(entries) ==
  [k \in {e[1] : e \in entries} |-> (CHOOSE e \in entries : e[1] = k)[2]]

\* what a plain object inherits from Object.prototype: the constructor
\* function and the prototype accessors, none of them a string or an array
ObjectFunction == <<"[Function: Object]">>
ObjectPrototype == <<"[Object: null prototype]">>
NativeFunction == <<"[Function]">>

Inherited ==
  ObjectOf({
    <<<<"c","o","n","s","t","r","u","c","t","o","r">>, ObjectFunction>>,
    <<<<"_","_","p","r","o","t","o","_","_">>, ObjectPrototype>>,
    <<<<"t","o","S","t","r","i","n","g">>, NativeFunction>>,
    <<<<"v","a","l","u","e","O","f">>, NativeFunction>>,
    <<<<"h","a","s","O","w","n","P","r","o","p","e","r","t","y">>, NativeFunction>>
  })

\* obj[key] is defined (own or inherited); every value of the tables and
\* every inherited member is truthy, so this is also the test `if (obj[key])`
hasProperty(obj, key) == key \in DOMAIN obj \/ key \in DOMAIN Inherited

\* obj[key] where hasProperty(obj, key)
getProperty(obj, key) == IF key \in DOMAIN obj THEN obj[key] ELSE Inherited[key]

\* [a, b] = value succeeds only on an iterable: the arrays of the table
isIterable(obj, key) == key \in DOMAIN obj

VARIABLES
  written,                 \* the writes made to the lookup tables since the module loaded
  op,                      \* the function called last, "idle" before any call
  word,                    \* its word argument
  pos,                     \* its partOfSpeech argument
  forms,                   \* the forms array of the getWordForms call
  raised,                  \* the exception the call threw, "none" if it returned
  doubling,                \* what the needsDoubling call returned
  practice,                \* what the generateStaticPractice call returned
  grammarNote,             \* what the generateStaticGrammarNote call returned
  seen,                    \* an earlier call and its outcome, kept for comparison
  request,                 \* the word of the generateVocabularyLesson request
  fetched,                 \* the sources queried so far, in the order of their fetch calls
  cambridge,               \* the promise of fetchCambridgeData
  free,                    \* the promise of fetchFreeDictionaryData
  lesson,                  \* the promise of generateVocabularyLesson
  targetLang,              \* the language translateVocabularyLesson was asked for
  requests,                \* its translateText calls, one for each text of the lesson
  translated,              \* the promise of translateVocabularyLesson
  appWord,                 \* App: the word state, the text of the search input
  isLoading,               \* App: the isLoading state
  error,                   \* App: the error state, Absent for null
  result,                  \* App: the result state, Absent for null
  history,                 \* App: the history state
  view,                    \* App: the view state
  isTutorialActive,        \* App: the isTutorialActive state
  tourStep,                \* App: the tourStep state
  confirmClear,            \* App: the confirmClear state
  localStorage,            \* the two items App keeps in localStorage
  timers,                  \* the number of setTimeout callbacks of clearHistory not yet run
  inflight                 \* the handleSubmit calls waiting for their lesson

(***************************************************************************)
(* The lookup tables are module-level objects, const bindings to mutable   *)
(* values.  A table holds what the module set plus what was written since: *)
(* written is a set of [table, key, value] assignments (value is TRUE for  *)
(* a Set's add).                                                           *)
(***************************************************************************)
WrittenTo(name) == {r \in written : r.table = name}

\* the object obj after the assignments made to the table called name
ObjectNow(obj, name) ==
  IF WrittenTo(name) = {} THEN obj
  ELSE [k \in DOMAIN obj \cup {r.key : r \in WrittenTo(name)} |->
          IF \E r \in WrittenTo(name) : r.key = k
          THEN (CHOOSE r \in WrittenTo(name) : r.key = k).value
          ELSE obj[k]]

\* the Set members after the adds made to the table called name
SetNow(members, name) == members \cup {r.key : r \in WrittenTo(name)}

IrregularVerbObject == ObjectOf(IrregularVerbEntries)

IrregularPluralObject == ObjectOf(IrregularPluralEntries)

IRREGULAR_VERBS == ObjectNow(IrregularVerbObject, "IRREGULAR_VERBS")

UNCOUNTABLE_NOUNS == SetNow(UncountableNounList, "UNCOUNTABLE_NOUNS")

ABSOLUTE_ADJECTIVES == SetNow(AbsoluteAdjectiveList, "ABSOLUTE_ADJECTIVES")

SHORT_ADJECTIVES == SetNow(ShortAdjectiveList, "SHORT_ADJECTIVES")

NO_DOUBLING_EXCEPTIONS == SetNow(NoDoublingExceptionList, "NO_DOUBLING_EXCEPTIONS")

IRREGULAR_PLURALS == ObjectNow(IrregularPluralObject, "IRREGULAR_PLURALS")

tables == <<written>>

\* what the calls of the forms engine and of the static selectors leave
outcome == <<tables, word, pos, forms, raised, doubling, practice, grammarNote, seen>>

\* the state of the forms engine and of the static selectors
engine == <<op, outcome>>

\* the state of one generateVocabularyLesson request
service == <<request, fetched, cambridge, free, lesson>>

\* the state of one translateVocabularyLesson call
translation == <<targetLang, requests, translated>>

\* the state of the App component
ui ==
  << appWord, isLoading, error, result, history, view, isTutorialActive, tourStep,
     confirmClear, localStorage, timers, inflight >>

vars == <<engine, service, translation, ui>>

(***************************************************************************)
(* grammarRules: helpers.                                                  *)
(***************************************************************************)
WordForm(label, form, explanation) ==
  [label |-> label, form |-> form, explanation |-> explanation]

isVowel(char) == char \in {"a", "e", "i", "o", "u"}

\* needsDoubling without the exception list
needsDoublingNoExceptions(w) ==
  IF Len(w) < 3 THEN FALSE
  ELSE IF charAt(w, Len(w) - 1) \in {"w", "x", "y"} THEN FALSE
  ELSE /\ ~isVowel(charAt(w, Len(w) - 1))
       /\ isVowel(charAt(w, Len(w) - 2))
       /\ ~isVowel(charAt(w, Len(w) - 3))

needsDoubling(w) ==
  IF Len(w) < 3 THEN FALSE
  ELSE IF charAt(w, Len(w) - 1) \in {"w", "x", "y"} THEN FALSE
  ELSE IF w \in NO_DOUBLING_EXCEPTIONS THEN FALSE
  ELSE /\ ~isVowel(charAt(w, Len(w) - 1))
       /\ isVowel(charAt(w, Len(w) - 2))
       /\ ~isVowel(charAt(w, Len(w) - 3))

(***************************************************************************)
(* grammarRules: generateVerbForms.                                        *)
(***************************************************************************)
thirdPerson(w) ==
  IF w = <<"h","a","v","e">> THEN <<"h","a","s">>
  ELSE IF w = <<"b","e">> THEN <<"i","s">>
  ELSE IF w = <<"d","o">> THEN <<"d","o","e","s">>
  ELSE IF w = <<"g","o">> THEN <<"g","o","e","s">>
  ELSE IF endsWith(w, <<"y">>) /\ ~isVowel(charAt(w, Len(w) - 2))
  THEN sliceEnd(w, 1) \o <<"i","e","s">>
  ELSE IF \/ endsWith(w, <<"o">>) \/ endsWith(w, <<"c","h">>) \/ endsWith(w, <<"s">>)
          \/ endsWith(w, <<"s","h">>) \/ endsWith(w, <<"x">>) \/ endsWith(w, <<"z">>)
  THEN w \o <<"e","s">>
  ELSE w \o <<"s">>

\* gerund dropping every final e, "ee", "oe" and "ye" included
gerundDropsEveryE(w) ==
  IF w = <<"b","e">> THEN <<"b","e","i","n","g">>
  ELSE IF endsWith(w, <<"i","e">>) THEN sliceEnd(w, 2) \o <<"y","i","n","g">>
  ELSE IF endsWith(w, <<"e">>) THEN sliceEnd(w, 1) \o <<"i","n","g">>
  ELSE IF needsDoubling(w) THEN w \o <<charAt(w, Len(w) - 1)>> \o <<"i","n","g">>
  ELSE w \o <<"i","n","g">>

gerund(w) ==
  IF w = <<"b","e">> THEN <<"b","e","i","n","g">>
  ELSE IF endsWith(w, <<"i","e">>) THEN sliceEnd(w, 2) \o <<"y","i","n","g">>
  ELSE IF /\ endsWith(w, <<"e">>) /\ ~endsWith(w, <<"e","e">>)
          /\ ~endsWith(w, <<"o","e">>) /\ ~endsWith(w, <<"y","e">>)
  THEN sliceEnd(w, 1) \o <<"i","n","g">>
  ELSE IF needsDoubling(w) THEN w \o <<charAt(w, Len(w) - 1)>> \o <<"i","n","g">>
  ELSE w \o <<"i","n","g">>

\* the regular past simple, lines 164-172
regularPast(w) ==
  IF endsWith(w, <<"e">>) THEN w \o <<"d">>
  ELSE IF endsWith(w, <<"y">>) /\ ~isVowel(charAt(w, Len(w) - 2))
  THEN sliceEnd(w, 1) \o <<"i","e","d">>
  ELSE IF needsDoubling(w) THEN w \o <<charAt(w, Len(w) - 1)>> \o <<"e","d">>
  ELSE w \o <<"e","d">>

\* pastForms trying the regular rules before the table: the table is only
\* reached by a word no rule applies to, and a rule applies to every word
pastFormsRegularFirst(w) ==
  [raised |-> "none", pastSimple |-> regularPast(w),
   pastParticiple |-> regularPast(w), isIrregular |-> FALSE]

\* step 3 of generateVerbForms: the past forms, or the TypeError of
\* destructuring a table member that is not an array
pastForms(w) ==
  IF hasProperty(IRREGULAR_VERBS, w)
  THEN IF isIterable(IRREGULAR_VERBS, w)
       THEN [raised |-> "none",
             pastSimple |-> getProperty(IRREGULAR_VERBS, w)[1],
             pastParticiple |-> getProperty(IRREGULAR_VERBS, w)[2],
             isIrregular |-> TRUE]
       ELSE [raised |-> "TypeError", pastSimple |-> <<>>, pastParticiple |-> <<>>,
             isIrregular |-> FALSE]
  ELSE [raised |-> "none", pastSimple |-> regularPast(w),
        pastParticiple |-> regularPast(w), isIrregular |-> FALSE]

\* the forms pushed, in order, and the exception if one ended the call
generateVerbForms(w, fs) ==
  LET first == fs \o
        << WordForm("Present (He/She/It)", thirdPerson(w),
                    "Used for current facts or habits with singular subjects."),
           WordForm("Continuous (-ing)", gerund(w),
                    "Used for actions happening now or as a noun (gerund).") >>
      past == pastForms(w)
      withPast == first \o
        << WordForm("Past Simple", past.pastSimple,
                    IF past.isIrregular THEN "Irregular past form."
                    ELSE "Regular past form for finished actions.") >>
  IN IF past.raised # "none" THEN [forms |-> first, raised |-> past.raised]
     ELSE IF past.pastParticiple # past.pastSimple \/ past.isIrregular
     THEN [forms |-> withPast \o
             << WordForm("Past Participle", past.pastParticiple,
                         "Used in Perfect tenses (have done) and Passive Voice.") >>,
           raised |-> "none"]
     ELSE [forms |-> withPast, raised |-> "none"]

(***************************************************************************)
(* grammarRules: generateNounForms, generateAdjectiveForms.                *)
(***************************************************************************)
plural(w) ==
  IF hasProperty(IRREGULAR_PLURALS, w) THEN getProperty(IRREGULAR_PLURALS, w)
  ELSE IF endsWith(w, <<"y">>) /\ ~isVowel(charAt(w, Len(w) - 2))
  THEN sliceEnd(w, 1) \o <<"i","e","s">>
  ELSE IF \/ endsWith(w, <<"s">>) \/ endsWith(w, <<"c","h">>) \/ endsWith(w, <<"s","h">>)
          \/ endsWith(w, <<"x">>) \/ endsWith(w, <<"z">>)
  THEN w \o <<"e","s">>
  ELSE w \o <<"s">>

\* generateNounForms without the uncountable test
generateNounFormsAlwaysPlural(w, fs) ==
  [forms |-> fs \o
     << WordForm("Plural", plural(w),
                 IF plural(w) = w
                 THEN "This noun has the same form for singular and plural."
                 ELSE "Used when referring to more than one.") >>,
   raised |-> "none"]

\* generateNounForms with the one explanation for every plural
generateNounFormsOneExplanation(w, fs) ==
  IF w \in UNCOUNTABLE_NOUNS
  THEN [forms |-> fs \o
          << WordForm("Type", <<"U","n","c","o","u","n","t","a","b","l","e"," ","N","o","u","n">>,
                      "This noun is usually used in the singular form and takes a singular verb.") >>,
        raised |-> "none"]
  ELSE [forms |-> fs \o
          << WordForm("Plural", plural(w), "Used when referring to more than one.") >>,
        raised |-> "none"]

generateNounForms(w, fs) ==
  IF w \in UNCOUNTABLE_NOUNS
  THEN [forms |-> fs \o
          << WordForm("Type", <<"U","n","c","o","u","n","t","a","b","l","e"," ","N","o","u","n">>,
                      "This noun is usually used in the singular form and takes a singular verb.") >>,
        raised |-> "none"]
  ELSE [forms |-> fs \o
          << WordForm("Plural", plural(w),
                      IF plural(w) = w
                      THEN "This noun has the same form for singular and plural."
                      ELSE "Used when referring to more than one.") >>,
        raised |-> "none"]

\* comparison testing the whitelist before the final y
comparisonWhitelistFirst(w) ==
  IF w = <<"g","o","o","d">>
  THEN << <<"b","e","t","t","e","r">>, <<"b","e","s","t">> >>
  ELSE IF w = <<"b","a","d">>
  THEN << <<"w","o","r","s","e">>, <<"w","o","r","s","t">> >>
  ELSE IF w = <<"f","a","r">>
  THEN << <<"f","a","r","t","h","e","r","/","f","u","r","t","h","e","r">>,
          <<"f","a","r","t","h","e","s","t","/","f","u","r","t","h","e","s","t">> >>
  ELSE IF w = <<"l","i","t","t","l","e">>
  THEN << <<"l","e","s","s">>, <<"l","e","a","s","t">> >>
  ELSE IF w \in SHORT_ADJECTIVES
  THEN IF endsWith(w, <<"e">>) THEN << w \o <<"r">>, w \o <<"s","t">> >>
       ELSE IF needsDoubling(w)
       THEN << w \o <<charAt(w, Len(w) - 1)>> \o <<"e","r">>,
               w \o <<charAt(w, Len(w) - 1)>> \o <<"e","s","t">> >>
       ELSE << w \o <<"e","r">>, w \o <<"e","s","t">> >>
  ELSE IF endsWith(w, <<"y">>)
  THEN << sliceEnd(w, 1) \o <<"i","e","r">>, sliceEnd(w, 1) \o <<"i","e","s","t">> >>
  ELSE << <<"m","o","r","e"," ">> \o w, <<"m","o","s","t"," ">> \o w >>

\* comparison whose whitelist branch never doubles the final consonant
comparisonNoDoubling(w) ==
  IF w = <<"g","o","o","d">>
  THEN << <<"b","e","t","t","e","r">>, <<"b","e","s","t">> >>
  ELSE IF w = <<"b","a","d">>
  THEN << <<"w","o","r","s","e">>, <<"w","o","r","s","t">> >>
  ELSE IF w = <<"f","a","r">>
  THEN << <<"f","a","r","t","h","e","r","/","f","u","r","t","h","e","r">>,
          <<"f","a","r","t","h","e","s","t","/","f","u","r","t","h","e","s","t">> >>
  ELSE IF w = <<"l","i","t","t","l","e">>
  THEN << <<"l","e","s","s">>, <<"l","e","a","s","t">> >>
  ELSE IF endsWith(w, <<"y">>)
  THEN << sliceEnd(w, 1) \o <<"i","e","r">>, sliceEnd(w, 1) \o <<"i","e","s","t">> >>
  ELSE IF w \in SHORT_ADJECTIVES
  THEN IF endsWith(w, <<"e">>) THEN << w \o <<"r">>, w \o <<"s","t">> >>
       ELSE << w \o <<"e","r">>, w \o <<"e","s","t">> >>
  ELSE << <<"m","o","r","e"," ">> \o w, <<"m","o","s","t"," ">> \o w >>

\* <<comparative, superlative>>, lines 241-272
comparison(w) ==
  IF w = <<"g","o","o","d">>
  THEN << <<"b","e","t","t","e","r">>, <<"b","e","s","t">> >>
  ELSE IF w = <<"b","a","d">>
  THEN << <<"w","o","r","s","e">>, <<"w","o","r","s","t">> >>
  ELSE IF w = <<"f","a","r">>
  THEN << <<"f","a","r","t","h","e","r","/","f","u","r","t","h","e","r">>,
          <<"f","a","r","t","h","e","s","t","/","f","u","r","t","h","e","s","t">> >>
  ELSE IF w = <<"l","i","t","t","l","e">>
  THEN << <<"l","e","s","s">>, <<"l","e","a","s","t">> >>
  ELSE IF endsWith(w, <<"y">>)
  THEN << sliceEnd(w, 1) \o <<"i","e","r">>, sliceEnd(w, 1) \o <<"i","e","s","t">> >>
  ELSE IF w \in SHORT_ADJECTIVES
  THEN IF endsWith(w, <<"e">>) THEN << w \o <<"r">>, w \o <<"s","t">> >>
       ELSE IF needsDoubling(w)
       THEN << w \o <<charAt(w, Len(w) - 1)>> \o <<"e","r">>,
               w \o <<charAt(w, Len(w) - 1)>> \o <<"e","s","t">> >>
       ELSE << w \o <<"e","r">>, w \o <<"e","s","t">> >>
  ELSE << <<"m","o","r","e"," ">> \o w, <<"m","o","s","t"," ">> \o w >>

\* generateAdjectiveForms without the absolute-adjective test
generateAdjectiveFormsComparesAll(w, fs) ==
  [forms |-> fs \o
     << WordForm("Comparative", comparison(w)[1], "Used to compare two things."),
        WordForm("Superlative", comparison(w)[2], "Used to express the highest degree.") >>,
   raised |-> "none"]

\* generateAdjectiveForms that pushes the comparative and forgets the superlative
generateAdjectiveFormsComparativeOnly(w, fs) ==
  IF w \in ABSOLUTE_ADJECTIVES
  THEN [forms |-> fs \o
          << WordForm("Type",
                      <<"A","b","s","o","l","u","t","e"," ","A","d","j","e","c","t","i","v","e">>,
                      "This adjective represents a limit or absolute state and cannot be compared (e.g., you cannot be 'more dead').") >>,
        raised |-> "none"]
  ELSE [forms |-> fs \o
          << WordForm("Comparative", comparison(w)[1], "Used to compare two things.") >>,
        raised |-> "none"]

generateAdjectiveForms(w, fs) ==
  IF w \in ABSOLUTE_ADJECTIVES
  THEN [forms |-> fs \o
          << WordForm("Type",
                      <<"A","b","s","o","l","u","t","e"," ","A","d","j","e","c","t","i","v","e">>,
                      "This adjective represents a limit or absolute state and cannot be compared (e.g., you cannot be 'more dead').") >>,
        raised |-> "none"]
  ELSE [forms |-> fs \o
          << WordForm("Comparative", comparison(w)[1], "Used to compare two things."),
             WordForm("Superlative", comparison(w)[2], "Used to express the highest degree.") >>,
        raised |-> "none"]

(***************************************************************************)
(* grammarRules: getWordForms.                                             *)
(***************************************************************************)
\* classifyForms testing "noun" before "verb"
classifyFormsNounFirst(partOfSpeech) ==
  LET p == toLowerCase(partOfSpeech)
      isVerb == includes(p, <<"v","e","r","b">>) /\ ~includes(p, <<"a","d","v","e","r","b">>)
      isNoun == includes(p, <<"n","o","u","n">>)
      isAdjective == includes(p, <<"a","d","j">>)
  IN IF isNoun THEN "noun"
     ELSE IF isVerb THEN "verb"
     ELSE IF isAdjective THEN "adjective"
     ELSE "none"

\* the generator the tag selects
classifyForms(partOfSpeech) ==
  LET p == toLowerCase(partOfSpeech)
      isVerb == includes(p, <<"v","e","r","b">>) /\ ~includes(p, <<"a","d","v","e","r","b">>)
      isNoun == includes(p, <<"n","o","u","n">>)
      isAdjective == includes(p, <<"a","d","j">>)
  IN IF isVerb THEN "verb"
     ELSE IF isNoun THEN "noun"
     ELSE IF isAdjective THEN "adjective"
     ELSE "none"

\* getWordForms with a final else that pushes the word as its own base form
getWordFormsBaseForm(w, partOfSpeech) ==
  LET cleanWord == trim(toLowerCase(w))
      branch == classifyForms(partOfSpeech)
  IN IF branch = "verb" THEN generateVerbForms(cleanWord, <<>>)
     ELSE IF branch = "noun" THEN generateNounForms(cleanWord, <<>>)
     ELSE IF branch = "adjective" THEN generateAdjectiveForms(cleanWord, <<>>)
     ELSE [forms |-> << WordForm("Base Form", cleanWord,
                                 "This word usually doesn't change form or acts as an invariant modifier.") >>,
           raised |-> "none"]

\* [forms, raised]: the forms array when the call ends, and how it ended
getWordForms(w, partOfSpeech) ==
  LET cleanWord == trim(toLowerCase(w))
      branch == classifyForms(partOfSpeech)
  IN IF branch = "verb" THEN generateVerbForms(cleanWord, <<>>)
     ELSE IF branch = "noun" THEN generateNounForms(cleanWord, <<>>)
     ELSE IF branch = "adjective" THEN generateAdjectiveForms(cleanWord, <<>>)
     ELSE [forms |-> <<>>, raised |-> "none"]

(***************************************************************************)
(* The dictionary service: generateStaticPractice.                         *)
(***************************************************************************)
templates_noun_speak ==
  <<
    "Role-play: You are a salesperson trying to sell a \"${word}\". What are its best features?",
    "Debate: Argue why the world needs more (or less) of \"${word}\".",
    "Imagine you are explaining what a \"${word}\" is to an alien who has never visited Earth.",
    "Tell a short story about a time you lost or found a \"${word}\".",
    "If you could give a \"${word}\" to any famous person, who would it be and why?",
    "Describe the perfect environment for a \"${word}\". What does it look like?",
    "Compare a \"${word}\" to an elephant. How are they different?",
    "If \"${word}\" was the main topic of a movie, what kind of movie would it be?"
  >>

templates_noun_write ==
  <<
    "Write a 3-line poem where the last word is \"${word}\".",
    "Create a shopping list or a 'to-do' list that involves a \"${word}\".",
    "Write a warning label for a \"${word}\". What should people be careful about?",
    "If \"${word}\" was a company name, what would their slogan be?",
    "Write a short text message to a friend explaining why you need a \"${word}\" right now.",
    "Describe a \"${word}\" using 3 adjectives and 3 verbs.",
    "Write a definition of \"${word}\" for a dictionary written by 5-year-olds."
  >>

templates_verb_speak ==
  <<
    "Confession time: Have you ever forgotten to \"${word}\"? What happened?",
    "Instruction: Teach me how to \"${word}\" perfectly in 3 steps.",
    "Prediction: Do you think people will still \"${word}\" in 100 years? Why?",
    "Interview: If you could hire someone just to \"${word}\" for you, would you?",
    "Scenario: You are late for a meeting because you had to \"${word}\". Explain this to your boss.",
    "Challenge: Try to convince me that it is dangerous to \"${word}\".",
    "If animals could \"${word}\", which animal would be the best at it?",
    "What is the most boring place to \"${word}\"? Explain why."
  >>

templates_verb_write ==
  <<
    "Write a diary entry about a day where you did nothing but \"${word}\".",
    "Write a set of rules for a library regarding how to \"${word}\".",
    "Create a fortune cookie message that includes the word \"${word}\".",
    "Write a sentence using \"${word}\" in the past, present, and future tense.",
    "Write a text message canceling plans because you need to \"${word}\".",
    "List 3 adverbs (e.g., quickly, sadly) that change the feeling of \"${word}\".",
    "Write a headline for a newspaper about a man who loves to \"${word}\"."
  >>

templates_adjective_speak ==
  <<
    "Opinion: Is it better to be rich or to be \"${word}\"? Defend your answer.",
    "Story: Describe a character in a movie who is extremely \"${word}\".",
    "Scenario: You are designing a house that must be very \"${word}\". Describe one room.",
    "Comparison: What is something that is \"${word}\" and something that is definitely NOT?",
    "If you were a food, would you be \"${word}\"? Why?",
    "Describe your perfect vacation using the word \"${word}\" twice.",
    "Do you think being \"${word}\" helps people succeed in life?",
    "If a car was described as \"${word}\", would you buy it?"
  >>

templates_adjective_write ==
  <<
    "Write a review for a restaurant that was very \"${word}\". give it 1 star.",
    "Write a dating profile bio for someone who describes themselves as \"${word}\".",
    "List 5 things in your room that are (or are not) \"${word}\".",
    "Complete the sentence: \"The problem with being ${word} is that...\"",
    "Write a short email to a hotel complaining that the room was not \"${word}\" enough.",
    "Create a new superhero name based on the word \"${word}\".",
    "Write a tweet (short sentence) using hashtags #life and #${word}."
  >>

templates_adverb_speak ==
  <<
    "Demonstration: Act out or describe doing a common task (like brushing teeth) \"${word}\".",
    "Advice: When is the best time to speak \"${word}\"?",
    "Scenario: A police officer stops you. Why is it important to answer \"${word}\"?",
    "Contrast: What is the difference between doing something \"${word}\" vs doing it quickly?",
    "Who in your family behaves \"${word}\" the most? Give an example."
  >>

templates_adverb_write ==
  <<
    "Write a guide on \"How to Drive \"${word}\".",
    "Write a mysterious note left on a desk that uses the word \"${word}\".",
    "List 3 verbs that change meaning when you add \"${word}\" (e.g. run \"${word}\").",
    "Write a sentence describing a storm moving \"${word}\".",
    "Complete this thought: \"I wish I could sing ${word} because...\""
  >>

templates_general_speak ==
  <<
    "Philosophy: What does the word \"${word}\" mean to you personally?",
    "Memory: Does the word \"${word}\" remind you of any specific memory?",
    "Association: Say the first 3 words that come to your mind when you hear \"${word}\".",
    "Creative: If \"${word}\" was a flavor of ice cream, what would it taste like?",
    "Use \"${word}\" in a question you would ask the President."
  >>

templates_general_write ==
  <<
    "Write a haiku (5-7-5 syllables) about \"${word}\".",
    "Write the word \"${word}\" in the middle of the page and draw a circle around it with related words.",
    "Write a sentence that uses \"${word}\" and its opposite.",
    "Write a cryptic message in a bottle using \"${word}\"."
  >>

\* the five-way classification of generateStaticPractice
\* cleanPos with 'verb' tested alone, so that "adverb" is a verb
cleanPosNoAdverbGuard(partOfSpeech) ==
  LET p == toLowerCase(partOfSpeech)
  IN IF includes(p, <<"v","e","r","b">>) THEN "verb"
     ELSE IF includes(p, <<"n","o","u","n">>) THEN "noun"
     ELSE IF includes(p, <<"a","d","j">>) THEN "adjective"
     ELSE IF includes(p, <<"a","d","v">>) THEN "adverb"
     ELSE "general"

cleanPos(partOfSpeech) ==
  LET p == toLowerCase(partOfSpeech)
  IN IF includes(p, <<"v","e","r","b">>) /\ ~includes(p, <<"a","d","v","e","r","b">>)
     THEN "verb"
     ELSE IF includes(p, <<"n","o","u","n">>) THEN "noun"
     ELSE IF includes(p, <<"a","d","j">>) THEN "adjective"
     ELSE IF includes(p, <<"a","d","v">>) THEN "adverb"
     ELSE "general"

RECURSIVE hashFrom(_, _)
hashFrom(w, i) == IF i > Len(w) THEN 0 ELSE charCodeAt(w[i]) + hashFrom(w, i + 1)

\* word.split('').reduce((acc, char) => acc + char.charCodeAt(0), 0)
hash(w) == hashFrom(w, 1)

templates(category) ==
  CASE category = "noun" -> [speak |-> templates_noun_speak, write |-> templates_noun_write]
    [] category = "verb" -> [speak |-> templates_verb_speak, write |-> templates_verb_write]
    [] category = "adjective" ->
         [speak |-> templates_adjective_speak, write |-> templates_adjective_write]
    [] category = "adverb" ->
         [speak |-> templates_adverb_speak, write |-> templates_adverb_write]
    [] OTHER -> [speak |-> templates_general_speak, write |-> templates_general_write]

\* a template literal with the word put in its ${word} places
Interpolate(template, w) == [template |-> template, word |-> w]

\* array[index]: undefined past the end of the array
elementAt(array, index) == IF index < Len(array) THEN array[index + 1] ELSE Undefined

\* generateStaticPractice with the speaking index used for both lists
generateStaticPracticeOneIndex(w, partOfSpeech) ==
  LET category == templates(cleanPos(partOfSpeech))
      speakIndex == hash(w) % Len(category.speak)
  IN [speakingPrompt |-> Interpolate(elementAt(category.speak, speakIndex), w),
      writingTask |-> Interpolate(elementAt(category.write, speakIndex), w)]

generateStaticPractice(w, partOfSpeech) ==
  LET category == templates(cleanPos(partOfSpeech))
      speakIndex == hash(w) % Len(category.speak)
      writeIndex == hash(w) % Len(category.write)
  IN [speakingPrompt |-> Interpolate(elementAt(category.speak, speakIndex), w),
      writingTask |-> Interpolate(elementAt(category.write, writeIndex), w)]

(***************************************************************************)
(* generateStaticGrammarNote: the grammar note of the static fallback.     *)
(***************************************************************************)
notes_noun ==
  <<
    "Determine if \"${word}\" is countable or uncountable. Uncountable nouns usually don't take 'a' or 'an' and lack a plural form.",
    "Consider common collocations with \"${word}\". Specific verbs often pair with it, like \"make\" vs \"do\".",
    "Check if \"${word}\" is acting as the subject (doer) or object (receiver) in your current sentence structure.",
    "If \"${word}\" is a concrete noun, try using specific adjectives to describe its texture, size, or color.",
    "Pay attention to article usage with \"${word}\". Does it need 'the' for a specific reference, or is it being used generally?"
  >>

notes_verb ==
  <<
    "Determine if \"${word}\" is transitive (needs an object) or intransitive (stands alone) in your sentence.",
    "Check the past tense form of \"${word}\". Is it regular (ending in -ed) or does it have an irregular spelling?",
    "Consider whether \"${word}\" is typically followed by a gerund (doing) or an infinitive (to do).",
    "Think about the voice: can \"${word}\" be used naturally in the passive voice?",
    "Look out for phrasal verbs involving \"${word}\". Adding prepositions like 'up' or 'out' might change its meaning."
  >>

notes_adjective ==
  <<
    "When using \"${word}\" with other adjectives, remember the standard order: Opinion → Size → Age → Shape → Color → Origin → Material.",
    "Check the comparative and superlative forms of \"${word}\". Do you add -er/-est, or do you use 'more'/'most'?",
    "Remember that \"${word}\" typically appears before the noun (attributive) or after linking verbs like 'be' (predicative).",
    "Ensure you are correctly distinguishing between \"${word}\" and related forms (e.g., -ed vs -ing endings).",
    "Use \"${word}\" to add specificity, but avoid using 'very' + \"${word}\" if a stronger synonym exists."
  >>

notes_adverb ==
  <<
    "Adverbs like \"${word}\" usually go before the main verb, but after 'to be'.",
    "Remember that \"${word}\" modifies a verb, adjective, or another adverb, often answering 'how', 'when', or 'to what extent'.",
    "While \"${word}\" likely functions as an adverb, verify if it has an irregular form compared to its adjective counterpart.",
    "Placement matters: ensure \"${word}\" is placed correctly (often after the object) to convey the intended meaning."
  >>

notes_general ==
  <<
    "Pay close attention to the specific context in which \"${word}\" is used to understand its nuance.",
    "Check if \"${word}\" has multiple meanings depending on the sentence structure or part of speech.",
    "Consider the register of \"${word}\": is it appropriate for formal writing or better suited for casual conversation?",
    "Practice using \"${word}\" in a question, a negative sentence, and a positive statement to master its usage."
  >>

notes(category) ==
  CASE category = "noun" -> notes_noun
    [] category = "verb" -> notes_verb
    [] category = "adjective" -> notes_adjective
    [] category = "adverb" -> notes_adverb
    [] OTHER -> notes_general

\* generateStaticGrammarNote with the first note of the category for every word
generateStaticGrammarNoteFirstNote(w, partOfSpeech) ==
  LET category == notes(cleanPos(partOfSpeech))
  IN Interpolate(elementAt(category, 0), w)

generateStaticGrammarNote(w, partOfSpeech) ==
  LET category == notes(cleanPos(partOfSpeech))
      index == hash(w) % Len(category)
  IN Interpolate(elementAt(category, index), w)

(***************************************************************************)
(* The inputs of the model.                                                *)
(***************************************************************************)
VerbSamples ==
  {
    <<"b","e">>, <<"h","a","v","e">>, <<"d","o">>, <<"g","o">>, <<"c","r","y">>,
    <<"f","i","x">>, <<"r","u","n">>, <<"v","i","s","i","t">>, <<"s","t","o","p">>,
    <<"p","l","a","y">>, <<"d","i","e">>, <<"l","i","e">>, <<"s","e","e">>,
    <<"m","a","k","e">>, <<"w","a","t","c","h">>, <<"w","a","s","h">>, <<"b","u","z","z">>,
    <<"s","n","o","w">>, <<"c","o","m","m","i","t">>, <<"a","g","r","e","e">>, <<"d","y","e">>,
    <<"t","o","e">>, <<"o","p","e","n">>, <<"h","a","p","p","e","n">>, <<"s","t","u","d","y">>,
    <<"s","t","a","y">>, <<"l","o","v","e">>, <<"y">>
  }

NounSamples ==
  {
    <<"c","i","t","y">>, <<"c","h","i","l","d">>,
    <<"i","n","f","o","r","m","a","t","i","o","n">>, <<"s","h","e","e","p">>, <<"b","u","s">>,
    <<"b","o","x">>, <<"p","o","t","a","t","o">>, <<"b","o","y">>,
    <<"c","o","n","s","t","r","u","c","t","o","r">>,
    <<"a","p","p","l","e">>
  }

AdjectiveSamples ==
  {
    <<"h","a","p","p","y">>, <<"b","e","a","u","t","i","f","u","l">>,
    <<"u","n","i","q","u","e">>, <<"e","m","p","t","y">>, <<"g","o","o","d">>, <<"b","a","d">>,
    <<"f","a","r">>, <<"l","i","t","t","l","e">>, <<"n","i","c","e">>, <<"b","i","g">>,
    <<"s","l","o","w">>, <<"b","u","s","y">>, <<"d","r","y">>, <<"q","u","i","c","k","l","y">>
  }

\* inputs that toLowerCase and trim change
RawSamples ==
  {
    <<" ","R","u","n"," ">>, <<"R","U","N">>, <<"t","o","S","t","r","i","n","g">>,
    <<"v","a","l","u","e","O","f">>, <<"V","i","s","i","t">>, <<" ","b","e">>
  }

\* the tags the dictionary sources give most often
CoreTags ==
  {
    <<"v","e","r","b">>, <<"n","o","u","n">>, <<"a","d","j","e","c","t","i","v","e">>,
    <<"a","d","v","e","r","b">>, <<"p","r","e","p","o","s","i","t","i","o","n">>
  }

TagAtoms ==
  {
    <<"v","e","r","b">>, <<"a","d","v","e","r","b">>, <<"n","o","u","n">>, <<"a","d","j">>,
    <<"a","d","v">>
  }

OtherTags ==
  {
    <<"t","r","a","n","s","i","t","i","v","e"," ","v","e","r","b">>,
    <<"a","d","j"," ","[","C","]">>, <<"u","n","k","n","o","w","n">>, <<>>,
    <<"V","e","r","b">>, <<"N","O","U","N">>, <<"A","d","j","e","c","t","i","v","e">>,
    <<"p","r","o","v","e","r","b">>, <<"p","r","o","n","o","u","n">>
  }

Tags == CoreTags \cup OtherTags \cup {a \o <<" ">> \o b : a, b \in TagAtoms}

ShortAlphabet == {"e", "i", "o", "y", "h", "s", "x", "t"}

\* every word over ShortAlphabet of at most MaxLen letters, the empty word included
ShortWords == UNION {[1..n -> ShortAlphabet] : n \in 0..MaxLen}

SampleWords == VerbSamples \cup NounSamples \cup AdjectiveSamples \cup RawSamples

\* every word the module's tables name
TableWords ==
  DOMAIN IrregularVerbObject \cup DOMAIN IrregularPluralObject \cup UncountableNounList
    \cup AbsoluteAdjectiveList \cup ShortAdjectiveList \cup NoDoublingExceptionList

Inputs == ((ShortWords \cup TableWords) \X CoreTags) \cup (SampleWords \X Tags)

\* the inputs of the runs that make several calls
CallWords ==
  { <<"r","u","n">>, <<"v","i","s","i","t">>, <<"c","i","t","y">>,
    <<"c","o","n","s","t","r","u","c","t","o","r">> }

CallTags == { <<"v","e","r","b">>, <<"n","o","u","n">>, <<"a","d","v","e","r","b">> }

(***************************************************************************)
(* The state machine: calls of the exported functions.                     *)
(***************************************************************************)
NoPrompt == [template |-> "", word |-> <<>>]

NoPractice == [speakingPrompt |-> NoPrompt, writingTask |-> NoPrompt]

NoCall ==
  [op |-> "idle", word |-> <<>>, pos |-> <<>>, forms |-> <<>>, raised |-> "none",
   practice |-> NoPractice, later |-> 0, held |-> <<>>, calls |-> 0, first |-> FALSE]

\* one more call has been made, on the module and since the remembered one
OneLater(s) ==
  [s EXCEPT !.calls = IF @ >= MaxLater THEN @ ELSE @ + 1,
            !.later = IF s.op = "idle" \/ @ >= MaxLater THEN @ ELSE @ + 1]

\* nothing has been written when the module has loaded
TablesInit == written = {}

\* a promise: not created, pending, fulfilled with a value or rejected with an error
NoPromise == [settled |-> "none"]

Pending == [settled |-> "pending"]

Fulfilled(value) == [settled |-> "fulfilled", value |-> value]

Rejected(message) == [settled |-> "rejected", error |-> message]

\* no lesson has been asked for
ServiceInit ==
  /\ request = <<>>
  /\ fetched = <<>>
  /\ cambridge = NoPromise
  /\ free = NoPromise
  /\ lesson = NoPromise

\* useState: the App component before its mount effect has run
UiInit ==
  /\ appWord = <<>>
  /\ isLoading = FALSE
  /\ error = <<>>
  /\ result = <<>>
  /\ history = <<>>
  /\ view = "home"
  /\ isTutorialActive = FALSE
  /\ tourStep = 0
  /\ confirmClear = FALSE
  /\ timers = 0
  /\ inflight = <<>>

\* no App is running
NoUi ==
  /\ UiInit
  /\ localStorage = <<>>

\* no translation has been asked for
TranslationInit ==
  /\ targetLang = <<>>
  /\ requests = <<>>
  /\ translated = NoPromise

\* one call on an input drawn from Inputs
Init ==
  /\ TablesInit
  /\ op = "idle"
  /\ \E input \in Inputs : word = input[1] /\ pos = input[2]
  /\ forms = <<>>
  /\ raised = "none"
  /\ doubling = FALSE
  /\ practice = NoPractice
  /\ grammarNote = NoPrompt
  /\ seen = NoCall
  /\ ServiceInit
  /\ TranslationInit
  /\ NoUi

\* GetWordFormsCall with one forms array shared by every call
GetWordFormsCallSharedForms(w, partOfSpeech) ==
  /\ op' = "getWordForms"
  /\ word' = w
  /\ pos' = partOfSpeech
  /\ forms' = forms \o getWordForms(w, partOfSpeech).forms
  /\ raised' = getWordForms(w, partOfSpeech).raised
  /\ doubling' = FALSE
  /\ practice' = NoPractice
  /\ grammarNote' = NoPrompt
  /\ seen' = [OneLater(seen) EXCEPT !.held = IF seen.op = "getWordForms" THEN forms' ELSE @]
  /\ UNCHANGED tables

\* GetWordFormsCall keeping the word it was handed in a table
GetWordFormsCallWritesTable(w, partOfSpeech) ==
  /\ op' = "getWordForms"
  /\ word' = w
  /\ pos' = partOfSpeech
  /\ forms' = getWordForms(w, partOfSpeech).forms
  /\ raised' = getWordForms(w, partOfSpeech).raised
  /\ doubling' = FALSE
  /\ practice' = NoPractice
  /\ grammarNote' = NoPrompt
  /\ seen' = OneLater(seen)
  /\ written' = written \cup {[table |-> "NO_DOUBLING_EXCEPTIONS", key |-> w, value |-> TRUE]}

GetWordFormsCall(w, partOfSpeech) ==
  /\ op' = "getWordForms"
  /\ word' = w
  /\ pos' = partOfSpeech
  /\ forms' = getWordForms(w, partOfSpeech).forms
  /\ raised' = getWordForms(w, partOfSpeech).raised
  /\ doubling' = FALSE
  /\ practice' = NoPractice
  /\ grammarNote' = NoPrompt
  /\ seen' = OneLater(seen)
  /\ UNCHANGED tables

\* needsDoubling is only ever handed the cleaned word
NeedsDoublingCall(w) ==
  /\ w = trim(toLowerCase(w))
  /\ op' = "needsDoubling"
  /\ word' = w
  /\ doubling' = needsDoubling(w)
  /\ forms' = <<>>
  /\ raised' = "none"
  /\ practice' = NoPractice
  /\ grammarNote' = NoPrompt
  /\ UNCHANGED <<tables, pos, seen>>

\* GenerateStaticPracticeCall with one result object that keeps its speakingPrompt
GenerateStaticPracticeCallSharedResult(w, partOfSpeech) ==
  /\ op' = "generateStaticPractice"
  /\ word' = w
  /\ pos' = partOfSpeech
  /\ practice' = IF practice = NoPractice THEN generateStaticPractice(w, partOfSpeech)
                 ELSE [generateStaticPractice(w, partOfSpeech) EXCEPT
                         !.speakingPrompt = practice.speakingPrompt]
  /\ grammarNote' = NoPrompt
  /\ forms' = <<>>
  /\ raised' = "none"
  /\ doubling' = FALSE
  /\ seen' = OneLater(seen)
  /\ UNCHANGED tables

GenerateStaticPracticeCall(w, partOfSpeech) ==
  /\ op' = "generateStaticPractice"
  /\ word' = w
  /\ pos' = partOfSpeech
  /\ practice' = generateStaticPractice(w, partOfSpeech)
  /\ grammarNote' = NoPrompt
  /\ forms' = <<>>
  /\ raised' = "none"
  /\ doubling' = FALSE
  /\ seen' = OneLater(seen)
  /\ UNCHANGED tables

GenerateStaticGrammarNoteCall(w, partOfSpeech) ==
  /\ op' = "generateStaticGrammarNote"
  /\ word' = w
  /\ pos' = partOfSpeech
  /\ grammarNote' = generateStaticGrammarNote(w, partOfSpeech)
  /\ practice' = NoPractice
  /\ forms' = <<>>
  /\ raised' = "none"
  /\ doubling' = FALSE
  /\ seen' = OneLater(seen)
  /\ UNCHANGED tables

Next ==
  \/ op = "idle" /\ GetWordFormsCall(word, pos) /\ UNCHANGED <<service, translation, ui>>
  \/ op = "idle" /\ NeedsDoublingCall(word) /\ UNCHANGED <<service, translation, ui>>
  \/ op = "idle" /\ GenerateStaticPracticeCall(word, pos) /\ UNCHANGED <<service, translation, ui>>
  \/ op = "idle" /\ GenerateStaticGrammarNoteCall(word, pos) /\ UNCHANGED <<service, translation, ui>>

Spec == Init /\ [][Next]_vars

(***************************************************************************)
(* Several calls in a row, one of them remembered with its outcome.        *)
(***************************************************************************)
InitCalls ==
  /\ TablesInit
  /\ op = "idle"
  /\ word = <<>>
  /\ pos = <<>>
  /\ forms = <<>>
  /\ raised = "none"
  /\ doubling = FALSE
  /\ practice = NoPractice
  /\ grammarNote = NoPrompt
  /\ seen = NoCall
  /\ ServiceInit
  /\ TranslationInit
  /\ NoUi

Remember ==
  /\ op \in {"getWordForms", "generateStaticPractice"}
  /\ seen' = [op |-> op, word |-> word, pos |-> pos, forms |-> forms,
              raised |-> raised, practice |-> practice, later |-> 0, held |-> forms,
              calls |-> seen.calls, first |-> seen.calls = 1]
  /\ UNCHANGED <<tables, op, word, pos, forms, raised, doubling, practice, grammarNote>>

NextCalls ==
  \/ \E w \in CallWords, p \in CallTags : GetWordFormsCall(w, p) /\ UNCHANGED <<service, translation, ui>>
  \/ \E w \in CallWords, p \in CallTags : GenerateStaticPracticeCall(w, p) /\ UNCHANGED <<service, translation, ui>>
  \/ \E w \in CallWords, p \in CallTags :
        GenerateStaticGrammarNoteCall(w, p) /\ UNCHANGED <<service, translation, ui>>
  \/ Remember /\ UNCHANGED <<service, translation, ui>>

SpecCalls == InitCalls /\ [][NextCalls]_vars

(***************************************************************************)
(* The dictionary service: generateVocabularyLesson and its two sources.   *)
(***************************************************************************)
VERB == <<"v","e","r","b">>

NOUN == <<"n","o","u","n">>

UNKNOWN == <<"u","n","k","n","o","w","n">>

\* response.ok: the status is in the range 200-299
ok(status) == status >= 200 /\ status <= 299

\* `Proxy response error: ${response.status}`
ProxyResponseError(status) ==
  CASE status = 404 -> "Proxy response error: 404"
    [] status = 500 -> "Proxy response error: 500"
    [] OTHER -> "Proxy response error"

\* the first n elements of the array
firstN(array, n) == SubSeq(array, 1, IF Len(array) < n THEN Len(array) ELSE n)

\* what the proxy answers: fetch rejects, or resolves with a status and a page, of
\* which doc holds the trimmed text of the first element of each selector
\* (empty when there is none) and the texts of the '.examp .eg' elements
NoDocument ==
  [dhw |-> <<>>, hw |-> <<>>, ddef |-> "", def |-> "", pos |-> <<>>, ipa |-> "", eg |-> <<>>]

Documents ==
  [dhw : {<<>>, <<"r","u","n">>},
   hw : {<<>>, <<"r","u","n">>},
   ddef : {"", "cambridge .def.ddef_d"},
   def : {"", "cambridge .def"},
   pos : {<<>>, VERB, NOUN},
   ipa : {"", "ipa"},
   eg : {<<>>, <<"eg 1">>, <<"eg 1", "eg 2", "eg 3", "eg 4">>}]

CambridgeResponses ==
  {[fetch |-> "rejected", status |-> 0, doc |-> NoDocument]}
    \cup {[fetch |-> "resolved", status |-> st, doc |-> NoDocument] : st \in {404, 500}}
    \cup {[fetch |-> "resolved", status |-> 200, doc |-> d] : d \in Documents}

\* fetchCambridgeData: the promise it returns, once the proxy has answered
fetchCambridgeData(w, response) ==
  LET doc == response.doc
      headword == doc.dhw
      meaning == IF doc.ddef # "" THEN doc.ddef ELSE doc.def
      partOfSpeech == doc.pos
      phonetics == IF doc.ipa # "" THEN <<"/", doc.ipa, "/">> ELSE <<>>
      examples == firstN(doc.eg, 3)
      formsCall == getWordForms(w, partOfSpeech)
  IN IF response.fetch = "rejected" THEN Rejected("Failed to fetch")
     ELSE IF ~ok(response.status) THEN Rejected(ProxyResponseError(response.status))
     ELSE IF headword = <<>> /\ doc.hw = <<>>
     THEN Rejected("Word not found in Cambridge Dictionary")
     ELSE IF meaning = "" THEN Rejected("Definition content missing")
     ELSE IF formsCall.raised # "none" THEN Rejected(formsCall.raised)
     ELSE Fulfilled(
            [word |-> IF headword # <<>> THEN headword ELSE w,
             meaning |-> meaning,
             phonetics |-> phonetics,
             partOfSpeech |-> IF partOfSpeech # <<>> THEN partOfSpeech ELSE UNKNOWN,
             exampleSentences |-> examples,
             grammarNote |-> generateStaticGrammarNote(w, partOfSpeech),
             relatedExpressions |-> <<>>,
             practice |-> generateStaticPractice(w, partOfSpeech),
             forms |-> formsCall.forms])

\* a member the JSON may lack: Absent, or Present with its value
Absent == <<>>

Present(value) == <<value>>

\* what the Free Dictionary API answers: fetch rejects, or resolves with a status
\* and a body; parses is FALSE when response.json() rejects, otherwise json is
\* the parsed array
Definitions ==
  { <<>>,
    <<[definition |-> "free definition", example |-> ""]>>,
    <<[definition |-> "free definition", example |-> "free eg 1"],
      [definition |-> "free definition 2", example |-> "free eg 2"],
      [definition |-> "free definition 3", example |-> "free eg 3"],
      [definition |-> "free definition 4", example |-> "free eg 4"]>> }

Meanings ==
  [partOfSpeech : {<<>>, VERB},
   definitions : Definitions,
   synonyms : {Absent, Present(<<"s1", "s2", "s3", "s4", "s5", "s6">>)}]

Entries ==
  [word : {<<"r","u","n">>},
   phonetic : {"", "/phonetic/"},
   phonetics : {Absent, Present(<<>>), Present(<<[text |-> ""], [text |-> "/text/"]>>)},
   meanings : {Absent, Present(<<>>)} \cup {Present(<<m>>) : m \in Meanings}]

FreeResponses ==
  {[fetch |-> "rejected", status |-> 0, parses |-> FALSE, json |-> <<>>]}
    \cup {[fetch |-> "resolved", status |-> 404, parses |-> TRUE, json |-> <<>>]}
    \cup {[fetch |-> "resolved", status |-> 200, parses |-> b, json |-> <<>>] : b \in BOOLEAN}
    \cup {[fetch |-> "resolved", status |-> 200, parses |-> TRUE, json |-> <<e>>] : e \in Entries}

\* `The word ${word} is used frequently in this context.`
UsedFrequently(w) == [template |-> "The word ${word} is used frequently in this context.",
                      word |-> w]

RECURSIVE examplesOf(_)
\* the non-empty example members of the definitions, in order
examplesOf(definitions) ==
  IF definitions = <<>> THEN <<>>
  ELSE (IF Head(definitions).example # "" THEN <<Head(definitions).example>> ELSE <<>>)
         \o examplesOf(Tail(definitions))

RECURSIVE examplesOfAll(_)
\* entry.meanings.forEach(m => m.definitions.forEach(...))
examplesOfAll(meanings) ==
  IF meanings = <<>> THEN <<>>
  ELSE examplesOf(Head(meanings).definitions) \o examplesOfAll(Tail(meanings))

\* entry.phonetic || entry.phonetics.find(p => p.text)?.text || ""
phoneticsOf(entry) ==
  LET phonetics == entry.phonetics[1]
  IN IF entry.phonetic # "" THEN entry.phonetic
     ELSE IF \E i \in 1..Len(phonetics) : phonetics[i].text # ""
     THEN phonetics[CHOOSE i \in 1..Len(phonetics) :
                      /\ phonetics[i].text # ""
                      /\ \A j \in 1..(i - 1) : phonetics[j].text = ""].text
     ELSE ""

\* the try block of fetchFreeDictionaryData: TRUE when a statement of it throws
freeThrows(w, response) ==
  \/ response.fetch = "rejected"
  \/ ~ok(response.status)
  \/ ~response.parses
  \/ response.json = <<>>
  \/ LET entry == response.json[1]
     IN \/ entry.meanings = Absent
        \/ entry.meanings = Present(<<>>)
        \/ LET meaningEntry == entry.meanings[1][1]
               partOfSpeech ==
                 IF meaningEntry.partOfSpeech # <<>> THEN meaningEntry.partOfSpeech ELSE UNKNOWN
           IN \/ getWordForms(w, partOfSpeech).raised # "none"
              \/ meaningEntry.definitions = <<>>
              \/ entry.phonetic = "" /\ entry.phonetics = Absent

\* the lesson fetchFreeDictionaryData builds when nothing throws
freeLesson(w, response) ==
  LET entry == response.json[1]
      meaningEntry == entry.meanings[1][1]
      found == firstN(examplesOfAll(entry.meanings[1]), 3)
      examples == IF found = <<>> THEN <<UsedFrequently(w)>> ELSE found
      partOfSpeech ==
        IF meaningEntry.partOfSpeech # <<>> THEN meaningEntry.partOfSpeech ELSE UNKNOWN
  IN [word |-> entry.word,
      meaning |-> meaningEntry.definitions[1].definition,
      phonetics |-> phoneticsOf(entry),
      partOfSpeech |-> partOfSpeech,
      exampleSentences |-> examples,
      grammarNote |-> generateStaticGrammarNote(w, partOfSpeech),
      relatedExpressions |->
        IF meaningEntry.synonyms = Absent THEN <<Undefined>>
        ELSE firstN(meaningEntry.synonyms[1], 5),
      practice |-> generateStaticPractice(w, partOfSpeech),
      forms |-> getWordForms(w, partOfSpeech).forms]

\* fetchFreeDictionaryData that lets the error of its try block through
fetchFreeDictionaryDataRethrows(w, response) ==
  IF freeThrows(w, response)
  THEN Rejected(IF response.fetch = "rejected" THEN "Failed to fetch"
                ELSE IF ~ok(response.status) THEN "Word not found in the dictionary."
                ELSE "TypeError")
  ELSE Fulfilled(freeLesson(w, response))

\* fetchFreeDictionaryData: the promise it returns, once the API has answered
fetchFreeDictionaryData(w, response) ==
  IF freeThrows(w, response)
  THEN Rejected("Could not find definition. Please try a different word.")
  ELSE Fulfilled(freeLesson(w, response))

\* the words asked for
RequestWords ==
  { <<" ","R","u","n"," ">>, <<"c","i","t","y">>,
    <<"c","o","n","s","t","r","u","c","t","o","r">> }

\* generateVocabularyLesson up to its first await: the Cambridge fetch is issued
GenerateVocabularyLesson(w) ==
  /\ lesson = NoPromise
  /\ request' = w
  /\ fetched' = <<"cambridge">>
  /\ cambridge' = Pending
  /\ lesson' = Pending
  /\ UNCHANGED <<engine, free, translation, ui>>

\* { ...data, word: word.trim() }
withWord(data, w) == [data EXCEPT !.word = trim(w)]

\* CambridgeSettles querying both sources at once
CambridgeSettlesQueriesBoth(response) ==
  /\ cambridge = Pending
  /\ LET lowerWord == toLowerCase(trim(request))
         data == fetchCambridgeData(lowerWord, response)
     IN /\ cambridge' = data
        /\ fetched' = fetched \o <<"free">>
        /\ free' = Pending
        /\ IF data.settled = "fulfilled"
           THEN lesson' = Fulfilled(withWord(data.value, request))
           ELSE UNCHANGED lesson
  /\ UNCHANGED <<engine, request, translation, ui>>

\* the proxy answers: the try block of generateVocabularyLesson returns, or its
\* catch block issues the Free Dictionary fetch
CambridgeSettles(response) ==
  /\ cambridge = Pending
  /\ LET lowerWord == toLowerCase(trim(request))
         data == fetchCambridgeData(lowerWord, response)
     IN /\ cambridge' = data
        /\ IF data.settled = "fulfilled"
           THEN /\ lesson' = Fulfilled(withWord(data.value, request))
                /\ UNCHANGED <<fetched, free>>
           ELSE /\ fetched' = fetched \o <<"free">>
                /\ free' = Pending
                /\ UNCHANGED lesson
  /\ UNCHANGED <<engine, request, translation, ui>>

\* the API answers: the catch block returns the lesson or its await throws
FreeSettles(response) ==
  /\ free = Pending
  /\ LET lowerWord == toLowerCase(trim(request))
         data == fetchFreeDictionaryData(lowerWord, response)
     IN /\ free' = data
        /\ lesson' = IF data.settled = "fulfilled"
                     THEN Fulfilled(withWord(data.value, request))
                     ELSE Rejected(data.error)
  /\ UNCHANGED <<engine, request, fetched, cambridge, translation, ui>>

InitLesson ==
  /\ TablesInit
  /\ op = "idle"
  /\ word = <<>>
  /\ pos = <<>>
  /\ forms = <<>>
  /\ raised = "none"
  /\ doubling = FALSE
  /\ practice = NoPractice
  /\ grammarNote = NoPrompt
  /\ seen = NoCall
  /\ ServiceInit
  /\ TranslationInit
  /\ NoUi

NextLesson ==
  \/ \E w \in RequestWords : GenerateVocabularyLesson(w)
  \/ \E response \in CambridgeResponses : CambridgeSettles(response)
  \/ \E response \in FreeResponses : FreeSettles(response)

SpecLesson == InitLesson /\ [][NextLesson]_vars

(***************************************************************************)
(* The translation service: translateText and translateVocabularyLesson.   *)
(***************************************************************************)
\* targetLang.split('-')[0]
langCodeOf(lang) ==
  IF \E i \in 1..Len(lang) : lang[i] = "-"
  THEN SubSeq(lang, 1, (CHOOSE i \in 1..Len(lang) :
                          lang[i] = "-" /\ \A j \in 1..(i - 1) : lang[j] # "-") - 1)
  ELSE lang

EN == <<"e","n">>

\* what MyMemory answers to one request: fetch rejects, or resolves with a body
\* that response.json() parses or not; responseData may be missing, and
\* translates says whether its translatedText is a non-empty text
MyMemoryResponses ==
  {[fetch |-> "rejected", parses |-> FALSE, responseStatus |-> 0, responseData |-> FALSE,
    translates |-> FALSE]}
    \cup {[fetch |-> "resolved", parses |-> FALSE, responseStatus |-> 0,
           responseData |-> FALSE, translates |-> FALSE]}
    \cup {[fetch |-> "resolved", parses |-> TRUE, responseStatus |-> st, responseData |-> FALSE,
           translates |-> FALSE] : st \in {200, 403}}
    \cup [fetch : {"resolved"}, parses : {TRUE}, responseStatus : {200, 403},
          responseData : {TRUE}, translates : BOOLEAN]

\* the translatedText MyMemory gives for the text q and the pair en|code
translatedText(q, code) == code \o <<":">> \o q

\* !text || !text.trim()
isEmptyText(text) == trim(text) = <<>>

\* the request brought no translation: fetch or response.json() rejected, the
\* status is not 200, or there is no translatedText
noTranslation(response) ==
  \/ response.fetch = "rejected"
  \/ ~response.parses
  \/ response.responseStatus # 200
  \/ ~response.responseData
  \/ ~response.translates

\* translateText giving the empty text where it has no translation
translateTextEmptyOnFailure(text, code, response) ==
  IF /\ response.fetch = "resolved" /\ response.parses
     /\ response.responseStatus = 200
     /\ response.responseData /\ response.translates
  THEN translatedText(text, code)
  ELSE <<>>

\* translateText once its request has been answered: the text it resolves with
translateText(text, code, response) ==
  IF /\ response.fetch = "resolved" /\ response.parses
     /\ response.responseStatus = 200
     /\ response.responseData /\ response.translates
  THEN translatedText(text, code)
  ELSE text

\* data.forms is undefined: the lesson comes from a service without the forms engine
formsMissing(data) == data.forms = <<Undefined>>

\* the translateText calls of translateVocabularyLesson, in the order it makes them
textsOf(data) ==
  << data.meaning, data.grammarNote,
     IF data.relatedExpressions = <<Undefined>> THEN <<>> ELSE data.relatedExpressions,
     data.practice.speakingPrompt, data.practice.writingTask >>
    \o data.exampleSentences
    \o (IF formsMissing(data) THEN <<>>
        ELSE [i \in 1..Len(data.forms) |-> data.forms[i].explanation])

\* a translateText call: returned at once for an empty text, else waiting for MyMemory
Requested(text) ==
  IF isEmptyText(text) THEN [state |-> "returned", text |-> text, failed |-> FALSE]
  ELSE [state |-> "fetching", text |-> text, failed |-> FALSE]

allSettled(calls) == \A i \in 1..Len(calls) : calls[i].state # "fetching"

\* the object translateVocabularyLesson returns from the texts of its calls
translatedLesson(data, calls) ==
  LET examples == Len(data.exampleSentences)
  IN [data EXCEPT
        !.meaning = calls[1].text,
        !.grammarNote = calls[2].text,
        !.relatedExpressions = calls[3].text,
        !.practice = [speakingPrompt |-> calls[4].text, writingTask |-> calls[5].text],
        !.exampleSentences = [i \in 1..examples |-> calls[5 + i].text],
        !.forms = [i \in 1..Len(data.forms) |->
                     [data.forms[i] EXCEPT !.explanation = calls[5 + examples + i].text]]]

\* the lessons handed to translateVocabularyLesson
TranslatedLessons ==
  [word : {<<"R","u","n">>},
   meaning : {<<"m">>},
   phonetics : {<<"/","r","/">>},
   partOfSpeech : {VERB},
   exampleSentences : {<<>>, << <<"e","1">>, <<>>, <<"e","3">> >>},
   grammarNote : {<<"g">>},
   relatedExpressions : {<<>>, <<Undefined>>, <<"r">>},
   practice : {[speakingPrompt |-> <<"s">>, writingTask |-> <<"w">>]},
   forms : {<<>>, <<Undefined>>,
            << WordForm("Past Simple", <<"r","a","n">>, <<"x","1">>),
               WordForm("Gerund", <<"r","u","n","n","i","n","g">>, <<" ">>) >>}]

TargetLangs == { EN, <<"e","n","-","U","S">>, <<"p","t","-","B","R">>, <<"e","s">> }

\* translateVocabularyLesson up to its await: the lesson itself for English,
\* else one translateText call for each text; data.forms.map throws on a lesson
\* without forms, after the calls before it have been made
TranslateVocabularyLesson(data, lang) ==
  /\ translated = NoPromise
  /\ lesson' = Fulfilled(data)
  /\ targetLang' = lang
  /\ IF langCodeOf(lang) = EN
     THEN /\ requests' = <<>>
          /\ translated' = Fulfilled(data)
     ELSE /\ requests' = [i \in 1..Len(textsOf(data)) |-> Requested(textsOf(data)[i])]
          /\ translated' = IF formsMissing(data)
                           THEN Rejected("Could not translate content.")
                           ELSE IF allSettled(requests')
                           THEN Fulfilled(translatedLesson(data, requests'))
                           ELSE Pending
  /\ UNCHANGED <<engine, request, fetched, cambridge, free, ui>>

\* MyMemory answers the request of call i: the call returns, and Promise.all
\* resolves when it was the last one
MyMemoryAnswers(i, response) ==
  /\ i \in 1..Len(requests)
  /\ requests[i].state = "fetching"
  /\ LET answer ==
           [state |-> "returned",
            text |-> translateText(requests[i].text, langCodeOf(targetLang), response),
            failed |-> noTranslation(response)]
     IN /\ requests' = [requests EXCEPT ![i] = answer]
        /\ translated' = IF translated = Pending /\ allSettled(requests')
                         THEN Fulfilled(translatedLesson(lesson.value, requests'))
                         ELSE translated
  /\ UNCHANGED <<engine, service, targetLang, ui>>

NextTranslate ==
  \/ \E data \in TranslatedLessons, lang \in TargetLangs : TranslateVocabularyLesson(data, lang)
  \/ \E i \in DOMAIN requests, response \in MyMemoryResponses : MyMemoryAnswers(i, response)

SpecTranslate == InitLesson /\ [][NextTranslate]_vars

(***************************************************************************)
(* The App component: search, history and tour.  op is the handler that    *)
(* ran last, "idle" before the mount effect.                               *)
(***************************************************************************)
MaxInFlight == 1

MaxTimers == 1

TOUR_STEPS ==
  << "Start Here", "Listen & Repeat", "Real Context", "Visual Memory", "Active Practice" >>

\* the lesson generateVocabularyLesson resolves with for the word of the
\* request, { ...data, word: word.trim() }; App reads none of its other members
lessonOf(w) == [word |-> trim(w), meaning |-> "cambridge .def"]

\* JSON.stringify of a history, a list of objects of strings
stringify(list) == [parses |-> TRUE, value |-> list]

\* the values of the vocabMasterHistory item when the page loads: none, a text
\* JSON.parse throws on, or a stored history without duplicates
StoredHistories ==
  { Absent, Present([parses |-> FALSE, value |-> <<>>]),
    Present(stringify(<< lessonOf(<<"c">>), lessonOf(<<"b">>), lessonOf(<<"a">>) >>)) }

\* prevHistory.filter(item => item.word.toLowerCase() !== newItem.word.toLowerCase())
filtered(prevHistory, newItem) ==
  SelectSeq(prevHistory, LAMBDA item : toLowerCase(item.word) # toLowerCase(newItem.word))

\* everything the handlers of App leave alone
untouched == <<outcome, service, translation>>

\* the effect run on mount: the stored history is read and the tour started
\* unless it has been seen
Mount ==
  /\ op = "idle"
  /\ op' = "mount"
  /\ LET savedHistory == localStorage.vocabMasterHistory
         hasSeenTutorial == localStorage.hasSeenTutorial
     IN /\ IF savedHistory = Absent THEN UNCHANGED <<history, localStorage>>
           ELSE IF savedHistory[1].parses
           THEN history' = savedHistory[1].value /\ UNCHANGED localStorage
           ELSE /\ localStorage' = [localStorage EXCEPT !.vocabMasterHistory = Absent]
                /\ UNCHANGED history
        /\ IF ~hasSeenTutorial
           THEN isTutorialActive' = TRUE /\ tourStep' = 0 /\ view' = "home"
           ELSE UNCHANGED <<isTutorialActive, tourStep, view>>
  /\ UNCHANGED <<appWord, isLoading, error, result, confirmClear, timers, inflight, untouched>>

\* onChange of the search inputs, and the button that empties the input
SetWord(w) ==
  /\ op # "idle"
  /\ op' = "setWord"
  /\ appWord' = w
  /\ UNCHANGED << isLoading, error, result, history, view, isTutorialActive, tourStep,
                  confirmClear, localStorage, timers, inflight, untouched >>

startTour ==
  /\ op # "idle"
  /\ op' = "startTour"
  /\ isTutorialActive' = TRUE
  /\ tourStep' = 0
  /\ view' = "home"
  /\ UNCHANGED << appWord, isLoading, error, result, history, confirmClear, localStorage,
                  timers, inflight, untouched >>

handleCloseTutorial ==
  /\ op # "idle"
  /\ isTutorialActive
  /\ op' = "handleCloseTutorial"
  /\ isTutorialActive' = FALSE
  /\ localStorage' = [localStorage EXCEPT !.hasSeenTutorial = TRUE]
  /\ UNCHANGED << appWord, isLoading, error, result, history, view, tourStep, confirmClear,
                  timers, inflight, untouched >>

\* nextTourStep that takes one step more before it closes the tour
nextTourStepOneMore ==
  /\ op # "idle"
  /\ isTutorialActive
  /\ op' = "nextTourStep"
  /\ IF tourStep <= Len(TOUR_STEPS) - 1
     THEN /\ tourStep' = tourStep + 1
          /\ UNCHANGED <<isTutorialActive, localStorage>>
     ELSE /\ isTutorialActive' = FALSE
          /\ localStorage' = [localStorage EXCEPT !.hasSeenTutorial = TRUE]
          /\ UNCHANGED tourStep
  /\ UNCHANGED << appWord, isLoading, error, result, history, view, confirmClear, timers,
                  inflight, untouched >>

nextTourStep ==
  /\ op # "idle"
  /\ isTutorialActive
  /\ op' = "nextTourStep"
  /\ IF tourStep < Len(TOUR_STEPS) - 1
     THEN /\ tourStep' = tourStep + 1
          /\ UNCHANGED <<isTutorialActive, localStorage>>
     ELSE /\ isTutorialActive' = FALSE
          /\ localStorage' = [localStorage EXCEPT !.hasSeenTutorial = TRUE]
          /\ UNCHANGED tourStep
  /\ UNCHANGED << appWord, isLoading, error, result, history, view, confirmClear, timers,
                  inflight, untouched >>

\* clearHistory that clears at the first click
clearHistoryAtOnce ==
  /\ op # "idle"
  /\ view = "history"
  /\ history # <<>>
  /\ op' = "clearHistory"
  /\ history' = <<>>
  /\ localStorage' = [localStorage EXCEPT !.vocabMasterHistory = Absent]
  /\ confirmClear' = FALSE
  /\ UNCHANGED << appWord, isLoading, error, result, view, isTutorialActive, tourStep, timers,
                  inflight, untouched >>

\* the Clear History button, shown in the history view of a non-empty history
clearHistory ==
  /\ op # "idle"
  /\ view = "history"
  /\ history # <<>>
  /\ op' = "clearHistory"
  /\ IF confirmClear
     THEN /\ history' = <<>>
          /\ localStorage' = [localStorage EXCEPT !.vocabMasterHistory = Absent]
          /\ confirmClear' = FALSE
          /\ UNCHANGED timers
     ELSE /\ confirmClear' = TRUE
          /\ timers' = timers + 1
          /\ UNCHANGED <<history, localStorage>>
  /\ UNCHANGED << appWord, isLoading, error, result, view, isTutorialActive, tourStep,
                  inflight, untouched >>

\* () => setConfirmClear(false), three seconds after an arming click
Timeout ==
  /\ timers > 0
  /\ op' = "timeout"
  /\ timers' = timers - 1
  /\ confirmClear' = FALSE
  /\ UNCHANGED << appWord, isLoading, error, result, history, view, isTutorialActive,
                  tourStep, localStorage, inflight, untouched >>

handleGoHome ==
  /\ op # "idle"
  /\ op' = "handleGoHome"
  /\ view' = "home"
  /\ result' = Absent
  /\ appWord' = <<>>
  /\ error' = Absent
  /\ confirmClear' = FALSE
  /\ UNCHANGED << isLoading, history, isTutorialActive, tourStep, localStorage, timers,
                  inflight, untouched >>

handleGoToHistory ==
  /\ op # "idle"
  /\ op' = "handleGoToHistory"
  /\ view' = "history"
  /\ result' = Absent
  /\ error' = Absent
  /\ confirmClear' = FALSE
  /\ UNCHANGED << appWord, isLoading, history, isTutorialActive, tourStep, localStorage,
                  timers, inflight, untouched >>

\* a click on an entry of the history, listed in the home and history views
handleHistoryClick(item) ==
  /\ op # "idle"
  /\ view \in {"home", "history"}
  /\ \E i \in 1..Len(history) : history[i] = item
  /\ op' = "handleHistoryClick"
  /\ result' = Present(item)
  /\ appWord' = item.word
  /\ view' = "result"
  /\ UNCHANGED << isLoading, error, history, isTutorialActive, tourStep, confirmClear,
                  localStorage, timers, inflight, untouched >>

\* handleSubmit that does not set isLoading back when the request fails
handleSubmitRejectedKeepsLoading(i, message) ==
  /\ i \in 1..Len(inflight)
  /\ op' = "handleSubmit catch"
  /\ error' = Present(IF message # "" THEN message ELSE "An unexpected error occurred.")
  /\ inflight' = SubSeq(inflight, 1, i - 1) \o SubSeq(inflight, i + 1, Len(inflight))
  /\ UNCHANGED << appWord, isLoading, result, history, view, isTutorialActive, tourStep,
                  confirmClear, localStorage, timers, untouched >>

\* handleSubmit up to its await: nothing for a blank word, else the request is made
handleSubmit ==
  /\ op # "idle"
  /\ op' = "handleSubmit"
  /\ IF trim(appWord) = <<>>
     THEN UNCHANGED <<isLoading, error, result, inflight>>
     ELSE /\ isLoading' = TRUE
          /\ error' = Absent
          /\ result' = Absent
          /\ inflight' = Append(inflight, [word |-> appWord,
                                           isTutorialActive |-> isTutorialActive,
                                           tourStep |-> tourStep])
  /\ UNCHANGED << appWord, history, view, isTutorialActive, tourStep, confirmClear,
                  localStorage, timers, untouched >>

\* addToHistory keeping the entry that was there
handleSubmitResolvedKeepsOld(i) ==
  /\ i \in 1..Len(inflight)
  /\ op' = "handleSubmit try"
  /\ LET lessonData == lessonOf(inflight[i].word)
         newHistory == IF filtered(history, lessonData) = history
                       THEN <<lessonData>> \o history ELSE history
     IN /\ result' = Present(lessonData)
        /\ history' = newHistory
        /\ localStorage' = [localStorage EXCEPT !.vocabMasterHistory =
                                                  Present(stringify(newHistory))]
  /\ view' = "result"
  /\ tourStep' = IF inflight[i].isTutorialActive /\ inflight[i].tourStep = 0 THEN 1 ELSE tourStep
  /\ isLoading' = FALSE
  /\ inflight' = SubSeq(inflight, 1, i - 1) \o SubSeq(inflight, i + 1, Len(inflight))
  /\ UNCHANGED <<appWord, error, isTutorialActive, confirmClear, timers, untouched>>

\* the lesson of request i has arrived: the try block after the await, and finally
handleSubmitResolved(i) ==
  /\ i \in 1..Len(inflight)
  /\ op' = "handleSubmit try"
  /\ LET lessonData == lessonOf(inflight[i].word)
         newHistory == <<lessonData>> \o filtered(history, lessonData)
     IN /\ result' = Present(lessonData)
        /\ history' = newHistory
        /\ localStorage' = [localStorage EXCEPT !.vocabMasterHistory =
                                                  Present(stringify(newHistory))]
  /\ view' = "result"
  /\ tourStep' = IF inflight[i].isTutorialActive /\ inflight[i].tourStep = 0 THEN 1 ELSE tourStep
  /\ isLoading' = FALSE
  /\ inflight' = SubSeq(inflight, 1, i - 1) \o SubSeq(inflight, i + 1, Len(inflight))
  /\ UNCHANGED <<appWord, error, isTutorialActive, confirmClear, timers, untouched>>

\* request i has been rejected: the catch block, and finally
handleSubmitRejected(i, message) ==
  /\ i \in 1..Len(inflight)
  /\ op' = "handleSubmit catch"
  /\ error' = Present(IF message # "" THEN message ELSE "An unexpected error occurred.")
  /\ isLoading' = FALSE
  /\ inflight' = SubSeq(inflight, 1, i - 1) \o SubSeq(inflight, i + 1, Len(inflight))
  /\ UNCHANGED << appWord, result, history, view, isTutorialActive, tourStep, confirmClear,
                  localStorage, timers, untouched >>

InitEngineIdle ==
  /\ TablesInit
  /\ op = "idle"
  /\ word = <<>>
  /\ pos = <<>>
  /\ forms = <<>>
  /\ raised = "none"
  /\ doubling = FALSE
  /\ practice = NoPractice
  /\ grammarNote = NoPrompt
  /\ seen = NoCall
  /\ ServiceInit
  /\ TranslationInit

\* a page load by someone who has seen the tour
InitApp ==
  /\ InitEngineIdle
  /\ UiInit
  /\ \E stored \in StoredHistories :
       localStorage = [vocabMasterHistory |-> stored, hasSeenTutorial |-> TRUE]

NextApp ==
  \/ Mount
  \/ \E w \in { <<" ">>, <<"a">>, <<"A"," ">>, <<"b">> } : SetWord(w)
  \/ Len(inflight) < MaxInFlight /\ handleSubmit
  \/ \E i \in 1..MaxInFlight : handleSubmitResolved(i)
  \/ \E i \in 1..MaxInFlight :
        handleSubmitRejected(i, "Could not find definition. Please try a different word.")
  \/ (confirmClear \/ timers < MaxTimers) /\ clearHistory
  \/ Timeout
  \/ handleGoHome
  \/ handleGoToHistory
  \/ \E i \in 1..Len(history) : handleHistoryClick(history[i])

SpecApp == InitApp /\ [][NextApp]_vars

\* a page load with an empty history, by someone who has or has not seen the tour
InitTour ==
  /\ InitEngineIdle
  /\ UiInit
  /\ \E seenTour \in BOOLEAN :
       localStorage = [vocabMasterHistory |-> Absent, hasSeenTutorial |-> seenTour]

NextTour ==
  \/ Mount
  \/ \E w \in { <<>>, <<"a">> } : SetWord(w)
  \/ Len(inflight) < MaxInFlight /\ handleSubmit
  \/ \E i \in 1..MaxInFlight : handleSubmitResolved(i)
  \/ \E i \in 1..MaxInFlight :
        handleSubmitRejected(i, "Could not find definition. Please try a different word.")
  \/ startTour
  \/ nextTourStep
  \/ handleCloseTutorial
  \/ handleGoToHistory

SpecTour == InitTour /\ [][NextTour]_vars

(***************************************************************************)
(* The claims.  A claim about getWordForms reads the state after the call: *)
(* the cleaned word, the generator the forms array shows, the forms.       *)
(***************************************************************************)
FormsCalled == op = "getWordForms"

\* the word the generators are handed
cleanWord == trim(toLowerCase(word))

Lower(tag) == toLowerCase(tag)

\* the category the claims give a tag, by first match
CategoryOfTag(tag) ==
  IF includes(Lower(tag), <<"v","e","r","b">>) /\ ~includes(Lower(tag), <<"a","d","v","e","r","b">>)
  THEN "verb"
  ELSE IF includes(Lower(tag), <<"n","o","u","n">>) THEN "noun"
  ELSE IF includes(Lower(tag), <<"a","d","j">>) THEN "adjective"
  ELSE "none"

\* the generator that filled a forms array, read off its first entry
GeneratorOf(fs) ==
  IF fs = <<>> THEN "none"
  ELSE IF fs[1].label = "Present (He/She/It)" THEN "verb"
  ELSE IF fs[1].label = "Plural" THEN "noun"
  ELSE IF fs[1].label = "Comparative" THEN "adjective"
  ELSE IF fs[1].label = "Type" /\ fs[1].form[1] = "U" THEN "noun"
  ELSE IF fs[1].label = "Type" /\ fs[1].form[1] = "A" THEN "adjective"
  ELSE "unknown"

VerbCalled == FormsCalled /\ CategoryOfTag(pos) = "verb"

\* C1: getWordForms never raises; for every word and every tag it returns a
\* sequence of forms whose label, form and explanation are all strings.
C1_NeverRaises ==
  FormsCalled =>
    /\ raised = "none"
    /\ \A i \in 1..Len(forms) : IsString(forms[i].form)

\* C2: two calls of getWordForms, or of generateStaticPractice, with the same
\* word and tag give the same outcome (the same forms in the same order, the
\* same prompt pair), whatever calls were made in between.
C2_Determinism ==
  (seen.op = op /\ seen.word = word /\ seen.pos = pos) =>
    /\ seen.forms = forms
    /\ seen.raised = raised
    /\ seen.practice = practice

\* a call repeated after two later calls, with forms to compare
C2_Witness ==
  /\ seen.op = "getWordForms" /\ op = "getWordForms"
  /\ seen.later = MaxLater
  /\ seen.word = word /\ seen.pos = pos
  /\ word = <<"r","u","n">> /\ pos = <<"v","e","r","b">>
  /\ Len(forms) = 4 /\ forms = seen.forms

\* C3: the tag is classified by first match: verb if it contains "verb" and
\* not "adverb", otherwise noun if it contains "noun", otherwise adjective if
\* it contains "adj"; the generator of the earliest matching category, and
\* only that one, fills the forms.
C3_ClassificationOrder ==
  /\ (FormsCalled /\ CategoryOfTag(pos) # "none") => GeneratorOf(forms) = CategoryOfTag(pos)
  /\ (FormsCalled /\ pos = <<"t","r","a","n","s","i","t","i","v","e"," ","v","e","r","b">>)
       => GeneratorOf(forms) = "verb"
  /\ (FormsCalled /\ includes(Lower(pos), <<"a","d","v","e","r","b">>))
       => GeneratorOf(forms) # "verb"
  /\ (FormsCalled /\ includes(Lower(pos), <<"v","e","r","b">>)
        /\ ~includes(Lower(pos), <<"a","d","v","e","r","b">>)
        /\ includes(Lower(pos), <<"n","o","u","n">>)) => GeneratorOf(forms) = "verb"
  /\ (FormsCalled /\ ~includes(Lower(pos), <<"v","e","r","b">>)
        /\ includes(Lower(pos), <<"n","o","u","n">>)
        /\ includes(Lower(pos), <<"a","d","j">>)) => GeneratorOf(forms) = "noun"

\* a tag holding both "noun" and "adj", handled as a noun
C3_Witness ==
  /\ FormsCalled
  /\ pos = <<"a","d","j"," ","n","o","u","n">>
  /\ word = <<"c","i","t","y">>
  /\ Len(forms) = 1 /\ forms[1].label = "Plural"

\* C4: for a tag that is not classified verb, noun or adjective (adverb tags
\* and "preposition" among them) getWordForms returns the empty sequence.
C4_UnclassifiedIsEmpty ==
  (FormsCalled /\ CategoryOfTag(pos) = "none") => (forms = <<>> /\ raised = "none")

C4_Witness ==
  /\ FormsCalled
  /\ word = <<"q","u","i","c","k","l","y">>
  /\ pos = <<"p","r","e","p","o","s","i","t","i","o","n">>
  /\ forms = <<>> /\ raised = "none"

(***************************************************************************)
(* The verb rules as the claims word them.                                 *)
(***************************************************************************)
VowelLetters == {"a", "e", "i", "o", "u"}

IsConsonant(c) == (\E k \in 1..Len(LowerLetters) : LowerLetters[k] = c) /\ c \notin VowelLetters

\* the word ends in a consonant followed by y
EndsInConsonantY(w) ==
  Len(w) >= 2 /\ w[Len(w)] = "y" /\ IsConsonant(w[Len(w) - 1])

\* the consonant-doubling rule of C9
DoublingRule(w) ==
  /\ Len(w) >= 3
  /\ IsConsonant(w[Len(w)]) /\ w[Len(w)] \notin {"w", "x", "y"}
  /\ w[Len(w) - 1] \in VowelLetters
  /\ w[Len(w) - 2] \notin VowelLetters
  /\ w \notin NO_DOUBLING_EXCEPTIONS

DropLast(w, n) == SubSeq(w, 1, Len(w) - n)

LastDoubled(w) == w \o <<w[Len(w)]>>

ThirdPersonRule(w) ==
  CASE w = <<"b","e">> -> <<"i","s">>
    [] w = <<"h","a","v","e">> -> <<"h","a","s">>
    [] w = <<"d","o">> -> <<"d","o","e","s">>
    [] w = <<"g","o">> -> <<"g","o","e","s">>
    [] OTHER ->
         IF EndsInConsonantY(w) THEN DropLast(w, 1) \o <<"i","e","s">>
         ELSE IF \E e \in {<<"o">>, <<"c","h">>, <<"s">>, <<"s","h">>, <<"x">>, <<"z">>} :
                   endsWith(w, e)
         THEN w \o <<"e","s">>
         ELSE w \o <<"s">>

GerundRule(w) ==
  IF w = <<"b","e">> THEN <<"b","e","i","n","g">>
  ELSE IF endsWith(w, <<"i","e">>) THEN DropLast(w, 2) \o <<"y","i","n","g">>
  ELSE IF endsWith(w, <<"e">>)
          /\ ~(\E e \in {<<"e","e">>, <<"o","e">>, <<"y","e">>} : endsWith(w, e))
  THEN DropLast(w, 1) \o <<"i","n","g">>
  ELSE IF DoublingRule(w) THEN LastDoubled(w) \o <<"i","n","g">>
  ELSE w \o <<"i","n","g">>

PastSimpleRule(w) ==
  IF endsWith(w, <<"e">>) THEN w \o <<"d">>
  ELSE IF EndsInConsonantY(w) THEN DropLast(w, 1) \o <<"i","e","d">>
  ELSE IF DoublingRule(w) THEN LastDoubled(w) \o <<"e","d">>
  ELSE w \o <<"e","d">>

\* the word is a key the irregular-verb table holds
InVerbTable(w) == w \in DOMAIN IRREGULAR_VERBS

\* C5: for a verb that is a key of the irregular-verb table the two stored
\* strings are the Past Simple and the Past Participle, verbatim and ahead of
\* every regular rule, the Past Simple explanation is the irregular one, and
\* the gerund is still the one the regular rules give.
C5_IrregularTableFirst ==
  (VerbCalled /\ InVerbTable(cleanWord)) =>
    /\ raised = "none"
    /\ Len(forms) = 4
    /\ forms[3].label = "Past Simple"
    /\ forms[3].form = IRREGULAR_VERBS[cleanWord][1]
    /\ forms[3].explanation = "Irregular past form."
    /\ forms[4].label = "Past Participle"
    /\ forms[4].form = IRREGULAR_VERBS[cleanWord][2]
    /\ forms[2].form = GerundRule(cleanWord)

\* run: the doubling rule gives the gerund, the table gives the past
C5_Witness ==
  /\ VerbCalled
  /\ cleanWord = <<"r","u","n">>
  /\ forms[2].form = <<"r","u","n","n","i","n","g">>
  /\ forms[3].form = <<"r","a","n">>
  /\ forms[4].form = <<"r","u","n">>
  /\ PastSimpleRule(cleanWord) = <<"r","u","n","n","e","d">>

\* C6: the third-person form of every verb, one- and two-letter words
\* included, is chosen by first match: be, have, do, go; consonant + y gives
\* "ies"; a final o, ch, s, sh, x or z gives "es"; otherwise "s".
C6_ThirdPersonFirstMatch ==
  VerbCalled =>
    /\ Len(forms) >= 1
    /\ forms[1].form = ThirdPersonRule(cleanWord)

\* C7: the gerund of a verb is chosen by first match: be; "ie" becomes
\* "ying"; a final e other than "ee", "oe", "ye" is dropped before "ing"; the
\* doubling rule doubles the final consonant; otherwise "ing" is appended.
C7_GerundFirstMatch ==
  VerbCalled =>
    /\ Len(forms) >= 2
    /\ forms[2].label = "Continuous (-ing)"
    /\ forms[2].form = GerundRule(cleanWord)

\* agree keeps its "ee"
C7_Witness ==
  /\ VerbCalled
  /\ cleanWord = <<"a","g","r","e","e">>
  /\ forms[2].form = <<"a","g","r","e","e","i","n","g">>

\* C8: for a verb that is not in the irregular-verb table the past simple is
\* chosen by first match: a final e takes "d"; consonant + y becomes "ied";
\* the doubling rule doubles the final consonant before "ed"; otherwise "ed".
C8_RegularPastFirstMatch ==
  (VerbCalled /\ ~InVerbTable(cleanWord)) =>
    /\ raised = "none"
    /\ Len(forms) >= 3
    /\ forms[3].label = "Past Simple"
    /\ forms[3].form = PastSimpleRule(cleanWord)

VISIT == <<"v","i","s","i","t">>

C10_VerbFormsInOrder ==
  VerbCalled =>
    /\ raised = "none"
    /\ Len(forms) = (IF InVerbTable(cleanWord) THEN 4 ELSE 3)
    /\ forms[1].label = "Present (He/She/It)"
    /\ forms[2].label = "Continuous (-ing)"
    /\ forms[3].label = "Past Simple"
    /\ Len(forms) = 4 => forms[4].label = "Past Participle"

(***************************************************************************)
(* The noun rules as the claims word them.                                 *)
(***************************************************************************)
NounCalled == FormsCalled /\ CategoryOfTag(pos) = "noun"

UncountableNounText == <<"U","n","c","o","u","n","t","a","b","l","e"," ","N","o","u","n">>

\* the word is a key the irregular-plural table holds
InPluralTable(w) == w \in DOMAIN IRREGULAR_PLURALS

PluralRule(w) ==
  IF InPluralTable(w) THEN IRREGULAR_PLURALS[w]
  ELSE IF EndsInConsonantY(w) THEN DropLast(w, 1) \o <<"i","e","s">>
  ELSE IF \E e \in {<<"s">>, <<"c","h">>, <<"s","h">>, <<"x">>, <<"z">>} : endsWith(w, e)
  THEN w \o <<"e","s">>
  ELSE w \o <<"s">>

\* C11: a noun in the uncountable set gets exactly one form, labelled "Type"
\* with the text "Uncountable Noun", and no "Plural" form, whatever the
\* irregular-plural table and the plural rules would give.
C11_UncountableOnly ==
  (NounCalled /\ cleanWord \in UNCOUNTABLE_NOUNS) =>
    /\ raised = "none"
    /\ Len(forms) = 1
    /\ forms[1].label = "Type"
    /\ forms[1].form = UncountableNounText
    /\ \A i \in 1..Len(forms) : forms[i].label # "Plural"

\* news ends in s: the plural rules would have given "newses"
C11_Witness ==
  /\ NounCalled
  /\ cleanWord = <<"n","e","w","s">>
  /\ PluralRule(cleanWord) = <<"n","e","w","s","e","s">>
  /\ Len(forms) = 1 /\ forms[1].form = UncountableNounText

\* C12: for a noun outside the uncountable set the plural is chosen by first
\* match: the irregular-plural entry if the word is a key of the table;
\* consonant + y becomes "ies"; a final s, ch, sh, x or z takes "es";
\* otherwise "s".
C12_PluralFirstMatch ==
  (NounCalled /\ cleanWord \notin UNCOUNTABLE_NOUNS) =>
    /\ Len(forms) >= 1
    /\ forms[1].form = PluralRule(cleanWord)

SameFormText == "This noun has the same form for singular and plural."

MoreThanOneText == "Used when referring to more than one."

\* C13: a noun outside the uncountable set gets exactly one form, labelled
\* "Plural"; its explanation is the same-form text exactly when the plural
\* equals the word, and the more-than-one text otherwise.
C13_OnePluralForm ==
  (NounCalled /\ cleanWord \notin UNCOUNTABLE_NOUNS) =>
    /\ raised = "none"
    /\ Len(forms) = 1
    /\ forms[1].label = "Plural"
    /\ forms[1].explanation =
         (IF forms[1].form = cleanWord THEN SameFormText ELSE MoreThanOneText)

C13_Witness ==
  /\ NounCalled
  /\ cleanWord = <<"s","h","e","e","p">>
  /\ Len(forms) = 1
  /\ forms[1].form = cleanWord
  /\ forms[1].explanation = SameFormText

(***************************************************************************)
(* The adjective rules as the claims word them.                            *)
(***************************************************************************)
AdjectiveCalled == FormsCalled /\ CategoryOfTag(pos) = "adjective"

AbsoluteAdjectiveText ==
  <<"A","b","s","o","l","u","t","e"," ","A","d","j","e","c","t","i","v","e">>

IsAbsolute(w) == w \in ABSOLUTE_ADJECTIVES

EMPTY == <<"e","m","p","t","y">>

\* C14: an adjective in the absolute set gets exactly one form, with the text
\* "Absolute Adjective", and neither a Comparative nor a Superlative, ahead
\* of the irregular, y-ending, whitelist and more/most branches.
C14_AbsoluteOnly ==
  (AdjectiveCalled /\ IsAbsolute(cleanWord)) =>
    /\ raised = "none"
    /\ Len(forms) = 1
    /\ forms[1].form = AbsoluteAdjectiveText
    /\ \A i \in 1..Len(forms) : forms[i].label \notin {"Comparative", "Superlative"}

\* empty ends in y and is still not compared
C14_Witness ==
  /\ AdjectiveCalled
  /\ cleanWord = EMPTY
  /\ endsWith(cleanWord, <<"y">>)
  /\ Len(forms) = 1 /\ forms[1].form = AbsoluteAdjectiveText

TwoComparisonForms ==
  /\ raised = "none"
  /\ Len(forms) = 2
  /\ forms[1].label = "Comparative" /\ forms[1].form # <<>>
  /\ forms[2].label = "Superlative" /\ forms[2].form # <<>>

\* C15: the adjective generator always emits exactly two forms, Comparative
\* then Superlative, both with non-empty text.
C15_AlwaysTwoForms == AdjectiveCalled => TwoComparisonForms

\* C15 as amended: for every adjective outside the absolute set the generator
\* emits exactly two forms, Comparative then Superlative, both non-empty.
C15_TwoFormsUnlessAbsolute ==
  (AdjectiveCalled /\ ~IsAbsolute(cleanWord)) => TwoComparisonForms

\* the empty word still gets "more " and "most "
C15_Witness ==
  /\ AdjectiveCalled
  /\ cleanWord = <<>>
  /\ Len(forms) = 2
  /\ forms[1].form = <<"m","o","r","e"," ">>
  /\ forms[2].form = <<"m","o","s","t"," ">>

IrregularComparison(w) ==
  CASE w = <<"g","o","o","d">> -> << <<"b","e","t","t","e","r">>, <<"b","e","s","t">> >>
    [] w = <<"b","a","d">> -> << <<"w","o","r","s","e">>, <<"w","o","r","s","t">> >>
    [] w = <<"f","a","r">> ->
         << <<"f","a","r","t","h","e","r","/","f","u","r","t","h","e","r">>,
            <<"f","a","r","t","h","e","s","t","/","f","u","r","t","h","e","s","t">> >>
    [] w = <<"l","i","t","t","l","e">> -> << <<"l","e","s","s">>, <<"l","e","a","s","t">> >>

IsIrregularAdjective(w) ==
  w \in {<<"g","o","o","d">>, <<"b","a","d">>, <<"f","a","r">>, <<"l","i","t","t","l","e">>}

\* the branch the claims give a non-absolute adjective, by first match
ComparisonBranch(w) ==
  IF IsIrregularAdjective(w) THEN "irregular"
  ELSE IF endsWith(w, <<"y">>) THEN "y"
  ELSE IF w \in SHORT_ADJECTIVES THEN "whitelist"
  ELSE "periphrastic"

\* the word takes a suffix: its comparative starts with the word and ends in r
TakesSuffix(w, comparative) ==
  /\ Len(comparative) > Len(w)
  /\ SubSeq(comparative, 1, Len(w)) = w
  /\ comparative[Len(comparative)] = "r"

\* C16: a non-absolute adjective is compared by the first branch that
\* matches: good, bad, far, little; then any final y becomes "ier"/"iest",
\* whitelisted or not; then a whitelisted word takes a suffix; every other
\* word takes "more " and "most ".
C16_ComparisonBranchOrder ==
  (AdjectiveCalled /\ ~IsAbsolute(cleanWord)) =>
    /\ Len(forms) = 2
    /\ ComparisonBranch(cleanWord) = "irregular" =>
         <<forms[1].form, forms[2].form>> = IrregularComparison(cleanWord)
    /\ ComparisonBranch(cleanWord) = "y" =>
         /\ forms[1].form = DropLast(cleanWord, 1) \o <<"i","e","r">>
         /\ forms[2].form = DropLast(cleanWord, 1) \o <<"i","e","s","t">>
    /\ ComparisonBranch(cleanWord) = "whitelist" => TakesSuffix(cleanWord, forms[1].form)
    /\ ComparisonBranch(cleanWord) = "periphrastic" =>
         /\ forms[1].form = <<"m","o","r","e"," ">> \o cleanWord
         /\ forms[2].form = <<"m","o","s","t"," ">> \o cleanWord

\* happy is whitelisted and ends in y: the y branch comes first
C16_Witness ==
  /\ AdjectiveCalled
  /\ cleanWord = <<"h","a","p","p","y">>
  /\ cleanWord \in SHORT_ADJECTIVES
  /\ forms[1].form = <<"h","a","p","p","i","e","r">>
  /\ forms[2].form = <<"h","a","p","p","i","e","s","t">>

\* C17: a whitelisted word that reaches the whitelist branch takes "r"/"st"
\* after a final e, the doubled final consonant and "er"/"est" when the
\* doubling rule applies, and "er"/"est" otherwise.
C17_WhitelistSuffix ==
  (AdjectiveCalled /\ ~IsAbsolute(cleanWord) /\ ComparisonBranch(cleanWord) = "whitelist") =>
    /\ Len(forms) = 2
    /\ forms[1].form =
         (IF endsWith(cleanWord, <<"e">>) THEN cleanWord \o <<"r">>
          ELSE IF DoublingRule(cleanWord) THEN LastDoubled(cleanWord) \o <<"e","r">>
          ELSE cleanWord \o <<"e","r">>)
    /\ forms[2].form =
         (IF endsWith(cleanWord, <<"e">>) THEN cleanWord \o <<"s","t">>
          ELSE IF DoublingRule(cleanWord) THEN LastDoubled(cleanWord) \o <<"e","s","t">>
          ELSE cleanWord \o <<"e","s","t">>)

C17_Witness ==
  /\ AdjectiveCalled
  /\ cleanWord = <<"b","i","g">>
  /\ forms[1].form = <<"b","i","g","g","e","r">>
  /\ forms[2].form = <<"b","i","g","g","e","s","t">>

(***************************************************************************)
(* The static practice selector.                                           *)
(***************************************************************************)
PracticeCalled == op = "generateStaticPractice"

RECURSIVE CharCodeSum(_)
\* the sum of the character codes of the word, 0 for the empty word
CharCodeSum(w) == IF w = <<>> THEN 0 ELSE charCodeAt(Head(w)) + CharCodeSum(Tail(w))

Categories == {"verb", "noun", "adjective", "adverb", "general"}

\* the category of a tag, first match in the stated order
SelectorCategory(tag) ==
  LET t == Lower(tag)
      has(part) == \E i \in 0..(Len(t) - Len(part)) : SubSeq(t, i + 1, i + Len(part)) = part
  IN IF has(<<"v","e","r","b">>) /\ ~has(<<"a","d","v","e","r","b">>) THEN "verb"
     ELSE IF has(<<"n","o","u","n">>) THEN "noun"
     ELSE IF has(<<"a","d","j">>) THEN "adjective"
     ELSE IF has(<<"a","d","v">>) THEN "adverb"
     ELSE "general"

SpeakingList(c) ==
  CASE c = "verb" -> templates_verb_speak
    [] c = "noun" -> templates_noun_speak
    [] c = "adjective" -> templates_adjective_speak
    [] c = "adverb" -> templates_adverb_speak
    [] c = "general" -> templates_general_speak

WritingList(c) ==
  CASE c = "verb" -> templates_verb_write
    [] c = "noun" -> templates_noun_write
    [] c = "adjective" -> templates_adjective_write
    [] c = "adverb" -> templates_adverb_write
    [] c = "general" -> templates_general_write

NoteList(c) ==
  CASE c = "verb" -> notes_verb
    [] c = "noun" -> notes_noun
    [] c = "adjective" -> notes_adjective
    [] c = "adverb" -> notes_adverb
    [] c = "general" -> notes_general

Elements(list) == {list[i] : i \in 1..Len(list)}

\* the entry of the list at the 0-based index sum mod length, with the word put in
EntryAt(list, sum, w) == [template |-> list[(sum % Len(list)) + 1], word |-> w]

\* C18: generateStaticPractice returns as speakingPrompt the entry of the
\* category's speaking list at index (sum of the character codes of the word)
\* mod (length of that list) and as writingTask the entry of the category's
\* writing list at index (the same sum) mod (length of that list), each index
\* from its own list's length; for every word, the empty word included, both
\* are members of the category's lists and neither is undefined.
C18_IndependentIndexes ==
  PracticeCalled =>
    LET c == SelectorCategory(pos)
        sum == CharCodeSum(word)
    IN /\ sum % Len(SpeakingList(c)) \in 0..(Len(SpeakingList(c)) - 1)
       /\ sum % Len(WritingList(c)) \in 0..(Len(WritingList(c)) - 1)
       /\ practice.speakingPrompt = EntryAt(SpeakingList(c), sum, word)
       /\ practice.writingTask = EntryAt(WritingList(c), sum, word)
       /\ practice.speakingPrompt.template \in Elements(SpeakingList(c)) \ {Undefined}
       /\ practice.writingTask.template \in Elements(WritingList(c)) \ {Undefined}

\* a call whose two indexes differ, the lists being of different lengths
C18_Witness ==
  /\ PracticeCalled
  /\ word # <<>>
  /\ Len(SpeakingList(SelectorCategory(pos))) # Len(WritingList(SelectorCategory(pos)))
  /\ CharCodeSum(word) % Len(SpeakingList(SelectorCategory(pos)))
       # CharCodeSum(word) % Len(WritingList(SelectorCategory(pos)))
  /\ practice.speakingPrompt.template \in Elements(SpeakingList(SelectorCategory(pos)))
  /\ practice.writingTask.template \in Elements(WritingList(SelectorCategory(pos)))

\* C19: the practice selector takes both prompts from the lists of the tag's
\* category, the first match in the order verb (contains "verb" and not
\* "adverb"), noun, adjective (contains "adj"), adverb (contains "adv"), else
\* general; the tag "adverb" selects the adverb lists and not the verb lists,
\* and the prompts belong to the lists of no other category.
C19_CategoryFirstMatch ==
  PracticeCalled =>
    LET c == SelectorCategory(pos)
    IN /\ practice.speakingPrompt.template \in Elements(SpeakingList(c))
       /\ practice.writingTask.template \in Elements(WritingList(c))
       /\ \A d \in Categories \ {c} :
            /\ practice.speakingPrompt.template \notin Elements(SpeakingList(d))
            /\ practice.writingTask.template \notin Elements(WritingList(d))
       /\ Lower(pos) = <<"a","d","v","e","r","b">> =>
            /\ practice.speakingPrompt.template \in Elements(templates_adverb_speak)
            /\ practice.speakingPrompt.template \notin Elements(templates_verb_speak)
            /\ practice.writingTask.template \in Elements(templates_adverb_write)
            /\ practice.writingTask.template \notin Elements(templates_verb_write)

\* the tag "adverb" has been given the adverb lists
C19_Witness ==
  /\ PracticeCalled
  /\ pos = <<"a","d","v","e","r","b">>
  /\ practice.speakingPrompt.template \in Elements(templates_adverb_speak)
  /\ practice.writingTask.template \in Elements(templates_adverb_write)

GrammarNoteCalled == op = "generateStaticGrammarNote"

\* C20: generateStaticGrammarNote returns the entry of the note list of the
\* tag's category at index (sum of the character codes of the word) mod
\* (length of that list), the sum and the five-way category being those of
\* generateStaticPractice; the result is a member of that note list.
C20_NoteByHash ==
  GrammarNoteCalled =>
    LET c == SelectorCategory(pos)
    IN /\ grammarNote = EntryAt(NoteList(c), CharCodeSum(word), word)
       /\ grammarNote.template \in Elements(NoteList(c)) \ {Undefined}

\* a note other than the first of its list, for a tag that names two categories
C20_Witness ==
  /\ GrammarNoteCalled
  /\ CharCodeSum(word) % Len(NoteList(SelectorCategory(pos))) > 0
  /\ SelectorCategory(pos) = "adverb"
  /\ grammarNote.template \in Elements(notes_adverb)
  /\ grammarNote.template # notes_adverb[1]

(***************************************************************************)
(* Calls in a row: the tables and the results the callers hold.            *)
(***************************************************************************)
\* C21: no call of getWordForms, generateStaticPractice or
\* generateStaticGrammarNote changes a lookup table: after any sequence of
\* calls the six tables hold exactly their initial contents, and the array an
\* earlier getWordForms call returned is still what that call returned.
C21_TablesUnchanged ==
  /\ IRREGULAR_VERBS = IrregularVerbObject
  /\ IRREGULAR_PLURALS = IrregularPluralObject
  /\ UNCOUNTABLE_NOUNS = UncountableNounList
  /\ ABSOLUTE_ADJECTIVES = AbsoluteAdjectiveList
  /\ SHORT_ADJECTIVES = ShortAdjectiveList
  /\ NO_DOUBLING_EXCEPTIONS = NoDoublingExceptionList
  /\ seen.op = "getWordForms" => seen.held = seen.forms

\* a returned array still held after two later calls, the last a getWordForms call
C21_Witness ==
  /\ seen.op = "getWordForms"
  /\ seen.later = MaxLater
  /\ op = "getWordForms"
  /\ Len(seen.held) = 4
  /\ Len(forms) = 1
  /\ DOMAIN IRREGULAR_VERBS = DOMAIN IrregularVerbObject

\* C22: a getWordForms or generateStaticPractice call made after calls from
\* other call sites, in any order, returns exactly what the same call
\* returned when it was the only call made on the module.
C22_SameAsAlone ==
  (seen.first /\ seen.later >= 1 /\ seen.op = op /\ seen.word = word /\ seen.pos = pos) =>
    /\ forms = seen.forms
    /\ raised = seen.raised
    /\ practice = seen.practice

\* a practice call made alone and again after two other calls
C22_Witness ==
  /\ seen.first
  /\ seen.later = MaxLater
  /\ seen.op = "generateStaticPractice" /\ op = "generateStaticPractice"
  /\ seen.word = word /\ seen.pos = pos
  /\ practice # NoPractice
  /\ practice = seen.practice

(***************************************************************************)
(* The lesson request: the two sources.                                    *)
(***************************************************************************)
\* the failures of the Cambridge attempt that come from what the proxy sent
NamedCambridgeFailures ==
  { "Proxy response error: 404", "Proxy response error: 500",
    "Word not found in Cambridge Dictionary", "Definition content missing" }

CambridgeDefinitions == {"cambridge .def.ddef_d", "cambridge .def"}

CambridgeFirst == fetched # <<>> => fetched[1] = "cambridge"

FallbackQueried == \E i \in 1..Len(fetched) : fetched[i] = "free"

\* the Cambridge attempt succeeded: no fallback, and the lesson is its data
\* under the trimmed word of the request
CambridgeLesson ==
  cambridge.settled = "fulfilled" =>
    /\ fetched = <<"cambridge">>
    /\ free = NoPromise
    /\ lesson.settled = "fulfilled"
    /\ lesson.value = [cambridge.value EXCEPT !.word = trim(request)]
    /\ lesson.value.meaning \in CambridgeDefinitions

\* C23 as stated: Cambridge is queried first, the Free Dictionary only after
\* the Cambridge attempt has failed through a non-OK proxy response, a page
\* without headword or a missing definition; after a successful Cambridge
\* attempt the fallback is not called and the lesson is the Cambridge data.
C23_FallbackAfterNamedFailure ==
  /\ CambridgeFirst
  /\ FallbackQueried =>
       cambridge.settled = "rejected" /\ cambridge.error \in NamedCambridgeFailures
  /\ CambridgeLesson

\* C23: Cambridge is queried first, the Free Dictionary only after
\* fetchCambridgeData has rejected, whatever made it reject (the three named
\* failures, a rejected fetch, an exception of the forms engine); after a
\* successful Cambridge attempt the fallback is not called and the lesson is
\* the Cambridge data.
C23_FallbackAfterFailure ==
  /\ CambridgeFirst
  /\ FallbackQueried =>
       /\ fetched = <<"cambridge", "free">>
       /\ cambridge.settled = "rejected"
       /\ cambridge.error \in
            NamedCambridgeFailures \cup {"Failed to fetch", "TypeError"}
  /\ CambridgeLesson

\* the fallback has been queried after a page without a definition
C23_Witness ==
  /\ fetched = <<"cambridge", "free">>
  /\ cambridge = Rejected("Definition content missing")
  /\ free = Pending
  /\ lesson = Pending

COULD_NOT_FIND == "Could not find definition. Please try a different word."

LessonFields ==
  { "word", "meaning", "phonetics", "partOfSpeech", "exampleSentences", "grammarNote",
    "relatedExpressions", "practice", "forms" }

TranslationDone == translated.settled = "fulfilled"

\* C25: translateVocabularyLesson leaves word, phonetics, partOfSpeech and
\* the label and form of every form unchanged and keeps the number and order
\* of exampleSentences and forms; every translated text is the translation of
\* the text at the same place, or the original text when its own request
\* failed or the text is empty; for the language code "en" the lesson is
\* returned unchanged and no request is made.
C25_TranslationFrame ==
  /\ translated.settled = "rejected" => formsMissing(lesson.value)
  /\ TranslationDone =>
       LET d == lesson.value
           r == translated.value
           code == langCodeOf(targetLang)
       IN /\ r.word = d.word
          /\ r.phonetics = d.phonetics
          /\ r.partOfSpeech = d.partOfSpeech
          /\ Len(r.exampleSentences) = Len(d.exampleSentences)
          /\ Len(r.forms) = Len(d.forms)
          /\ \A i \in 1..Len(d.forms) :
               formsMissing(d) \/
                 (r.forms[i].label = d.forms[i].label /\ r.forms[i].form = d.forms[i].form)
          /\ IF code = EN
             THEN r = d /\ requests = <<>>
             ELSE /\ Len(requests) = Len(textsOf(d))
                  /\ \A i \in 1..Len(textsOf(d)) :
                       textsOf(r)[i] =
                         IF requests[i].failed \/ isEmptyText(textsOf(d)[i])
                         THEN textsOf(d)[i]
                         ELSE translatedText(textsOf(d)[i], code)

\* a Portuguese translation in which one request failed, another succeeded and
\* an empty example was left alone
C25_Witness ==
  /\ TranslationDone
  /\ targetLang = <<"p","t","-","B","R">>
  /\ Len(translated.value.exampleSentences) = 3
  /\ Len(translated.value.forms) = 2
  /\ requests[1].failed
  /\ translated.value.meaning = lesson.value.meaning
  /\ ~requests[6].failed
  /\ translated.value.exampleSentences[1] = <<"p","t",":","e","1">>
  /\ translated.value.exampleSentences[2] = <<>>
  /\ translated.value.forms[1].explanation = <<"p","t",":","x","1">>
  /\ translated.value.forms[2].explanation = <<" ">>

(***************************************************************************)
(* The App component: history, clearing, submitting, tour.                 *)
(***************************************************************************)
Mounted == op # "idle"

\* no two entries have words equal ignoring case
NoDuplicates(list) ==
  \A i, j \in 1..Len(list) : i # j => Lower(list[i].word) # Lower(list[j].word)

\* the list in localStorage is the list in memory; no item stands for the empty list
StoredIsHistory ==
  IF localStorage.vocabMasterHistory = Absent THEN history = <<>>
  ELSE /\ localStorage.vocabMasterHistory[1].parses
       /\ localStorage.vocabMasterHistory[1].value = history

IsBlank(w) == \A i \in 1..Len(w) : w[i] = " "

RECURSIVE Stripped(_)
\* the word without its surrounding spaces
Stripped(w) ==
  IF w = <<>> THEN w
  ELSE IF Head(w) = " " THEN Stripped(Tail(w))
  ELSE IF w[Len(w)] = " " THEN Stripped(SubSeq(w, 1, Len(w) - 1))
  ELSE w

\* the sequence without its element i
Without(seq, i) == SubSeq(seq, 1, i - 1) \o SubSeq(seq, i + 1, Len(seq))

\* a search has succeeded: its word is at the front, the other entries follow
\* in the order they had
SearchMovesToFront ==
  op' = "handleSubmit try" =>
    /\ history' # <<>>
    /\ \E i \in 1..Len(inflight) :
         inflight' = Without(inflight, i) /\ history'[1].word = Stripped(inflight[i].word)
    /\ Tail(history') =
         SelectSeq(history, LAMBDA item : Lower(item.word) # Lower(history'[1].word))
    /\ result' = Present(history'[1])

\* clicks, navigation, typing and failed searches leave the history alone
OthersKeepHistory ==
  op' \in { "setWord", "handleSubmit", "handleSubmit catch", "handleHistoryClick",
            "handleGoHome", "handleGoToHistory", "timeout" } =>
    history' = history /\ localStorage' = localStorage

ResetsOfConfirmClear == {"clearHistory", "handleGoHome", "handleGoToHistory", "timeout"}

ClearHistoryStep ==
  /\ (history # <<>> /\ history' = <<>>) => (op' = "clearHistory" /\ confirmClear)
  /\ (op' = "clearHistory" /\ ~confirmClear) =>
       /\ confirmClear'
       /\ timers' = timers + 1
       /\ history' = history
       /\ localStorage' = localStorage
  /\ (op' = "clearHistory" /\ confirmClear) =>
       /\ ~confirmClear'
       /\ history' = <<>>
       /\ localStorage'.vocabMasterHistory = Absent
  /\ op' \in ResetsOfConfirmClear \ {"clearHistory"} => ~confirmClear'
  /\ op' = "timeout" => timers > 0 /\ timers' = timers - 1
  /\ (confirmClear /\ ~confirmClear') => op' \in ResetsOfConfirmClear
  /\ (~confirmClear /\ confirmClear') => op' = "clearHistory"

SubmitStep ==
  /\ (op' = "handleSubmit" /\ IsBlank(appWord)) => UNCHANGED ui
  /\ (op' = "handleSubmit" /\ ~IsBlank(appWord)) =>
       /\ isLoading'
       /\ error' = Absent
       /\ result' = Absent
       /\ UNCHANGED <<history, view, localStorage>>
  /\ op' = "handleSubmit catch" =>
       /\ error' = Present(COULD_NOT_FIND)
       /\ result' = result
       /\ UNCHANGED <<history, view, localStorage>>
       /\ ~isLoading'
  /\ op' = "handleSubmit try" => ~isLoading' /\ result' # Absent

LastStep == Len(TOUR_STEPS) - 1

TourStep ==
  /\ (op' = "nextTourStep" /\ tourStep >= LastStep) =>
       /\ tourStep' = tourStep
       /\ ~isTutorialActive'
       /\ localStorage'.hasSeenTutorial
  /\ (op' = "nextTourStep" /\ tourStep < LastStep) =>
       tourStep' = tourStep + 1 /\ isTutorialActive'
  /\ op' = "startTour" => (tourStep' = 0 /\ view' = "home" /\ isTutorialActive')
  /\ (op' = "handleSubmit try" /\ tourStep' # tourStep) =>
       /\ tourStep' = 1
       /\ \E i \in 1..Len(inflight) :
            /\ inflight' = Without(inflight, i)
            /\ inflight[i].isTutorialActive
            /\ inflight[i].tourStep = 0
  /\ tourStep' # tourStep => op' \in {"nextTourStep", "startTour", "handleSubmit try"}

\* C29: tourStep stays within 0..TOUR_STEPS.length-1; nextTourStep on the last
\* step leaves tourStep, closes the tour and stores the seen flag, and before
\* the last step adds one; startTour sets tourStep to 0 and the view to home;
\* a successful search changes tourStep only to 1 and only if the tour was
\* active at step 0 when that search was submitted.
C29_TourInvariant ==
  /\ [](tourStep \in 0..LastStep)
  /\ [][TourStep]_vars

\* a search submitted at step 0 of the running tour has succeeded
C29_Witness ==
  /\ op = "handleSubmit try"
  /\ isTutorialActive
  /\ tourStep = 1
  /\ view = "result"
  /\ result # Absent

(***************************************************************************)
(* The forms engine against the practice selector.                         *)
(***************************************************************************)
\* the category of the selector that goes with a branch of getWordForms
CategoriesOfBranch(branch) ==
  IF branch = "none" THEN {"adverb", "general"} ELSE {branch}

\* the categories whose lists hold the template
CategoriesHolding(template, List(_)) == {c \in Categories : template \in Elements(List(c))}

\* C30: getWordForms and the selector of generateStaticPractice and
\* generateStaticGrammarNote classify every tag alike, in any case of its
\* letters: the forms are those of the verb, noun or adjective generator
\* exactly when the prompts and the note come from the verb, noun or adjective
\* lists, and a call that returns gives the empty sequence exactly when they
\* come from the adverb or general lists; the word is lower-cased and trimmed,
\* so the cleaned word gives the same forms as the word itself.
C30_ClassifiersAgree ==
  /\ (FormsCalled /\ forms # <<>>) => GeneratorOf(forms) = cleanPos(pos)
  /\ (FormsCalled /\ raised = "none") =>
       (forms = <<>> <=> cleanPos(pos) \in {"adverb", "general"})
  /\ (FormsCalled /\ raised # "none") => cleanPos(pos) \in {"verb", "noun", "adjective"}
  /\ PracticeCalled =>
       /\ CategoriesHolding(practice.speakingPrompt.template, SpeakingList)
            \subseteq CategoriesOfBranch(classifyForms(pos))
       /\ CategoriesHolding(practice.writingTask.template, WritingList)
            \subseteq CategoriesOfBranch(classifyForms(pos))
       /\ CategoriesHolding(practice.speakingPrompt.template, SpeakingList) # {}
       /\ practice = generateStaticPractice(word, Lower(pos))
  /\ GrammarNoteCalled =>
       /\ CategoriesHolding(grammarNote.template, NoteList)
            \subseteq CategoriesOfBranch(classifyForms(pos))
       /\ CategoriesHolding(grammarNote.template, NoteList) # {}
       /\ grammarNote = generateStaticGrammarNote(word, Lower(pos))
  /\ FormsCalled =>
       /\ forms = getWordForms(cleanWord, Lower(pos)).forms
       /\ raised = getWordForms(cleanWord, Lower(pos)).raised

\* " Run " tagged "Verb" has the forms of run tagged verb
C30_Witness ==
  /\ FormsCalled
  /\ word = <<" ","R","u","n"," ">>
  /\ pos = <<"V","e","r","b">>
  /\ raised = "none"
  /\ GeneratorOf(forms) = "verb"
  /\ forms = getWordForms(<<"r","u","n">>, <<"v","e","r","b">>).forms

====
